---- MODULE Spec2Model ----
(***************************************************************************)
(* Model of the adaptive control logic of image-video-compress-split:      *)
(* the quality search of compressImage, the uniform and boundary segment   *)
(* planners, the batched and chained encode schedulers of splitVideo and   *)
(* detectWebMQualityChange, and the quality-change detector.               *)
(*                                                                         *)
(* Units.  File sizes are bytes.  A value produced by                      *)
(* (bytes / 1024).toFixed(2) is kept as an integer number of hundredths of *)
(* a KB.  Target sizes are whole KB (server.js passes parseInt(...)).      *)
(* Times of a uniform plan are exact rationals kept as numerators over the *)
(* plan's denominator "scale" (= totalParts).                              *)
(***************************************************************************)
EXTENDS Integers, Sequences, FiniteSets, TLC

VARIABLES
  img,      \* compressImage requests: [Reqs -> record]
  cache,    \* CompressionCache.cache: the Map as a sequence in insertion order
  now,      \* Date.now()
  vid,      \* one compressVideo / splitVideo request
  webm,     \* one detectWebMQualityChange request
  det,      \* one detectQualityChanges invocation
  call,     \* the last call made on the cache by a direct caller, and its return
  meta,     \* cacheManager: the files on disk, metadataCache and the last lookup
  twopass   \* concurrent compressVideo calls in their two passes, and the log files

vars == <<img, cache, now, vid, webm, det, call, meta, twopass>>

-----------------------------------------------------------------------------
(* Bounds of the model *)

NumReq == 2
Reqs == 1..NumReq

MaxLines == 3

\* direct calls made on the cache, lookups made in the metadata cache
MaxCalls == 3

NoWebmResult == [action |-> "pending", originalSize |-> 0, totalParts |-> 0,
                 qualityChanges |-> <<>>, parts |-> <<>>]

\* a detectWebMQualityChange request that has not been made
IdleWebm ==
  [pc |-> "idle", rev |-> "fallback", originalBytes |-> 0, targetSizeKB |-> 0,
   duration |-> 0, qualityChanges |-> <<>>, scale |-> 1, segments |-> <<>>, i |-> 0,
   config |-> "none", chain |-> <<>>, jobs |-> <<>>, parts |-> <<>>, encodes |-> 0,
   thrown |-> <<>>, result |-> NoWebmResult]

\* a detectQualityChanges invocation that has not been made
IdleDetector ==
  [pc |-> "idle", rev |-> "debounced", qualityChanges |-> <<>>, previousBitrate |-> 0,
   previousResolution |-> 0, lastTimestamp |-> 0, timer |-> "none", proc |-> "none",
   promise |-> [state |-> "pending", value |-> <<>>], lines |-> 0, clock |-> 0,
   traced |-> FALSE, stream |-> <<>>]

\* no direct call has been made on the cache
NoCall == [op |-> "none", key |-> <<>>, quality |-> 0, returned |-> <<>>,
           hadEntry |-> FALSE, age |-> 0, calls |-> 0, observed |-> <<>>]

\* no compressVideo call has reached its two passes; logs is the set of log
\* files on disk, each with the call that wrote it
IdleTwoPass ==
  [req |-> [r \in Reqs |-> [pc |-> "idle", passLogFile |-> 0, readLogOf |-> 0]],
   logs |-> {}]

\* cacheManager before any file was looked up: the version each path holds,
\* the Map in insertion order, and the last lookup
IdleMeta ==
  [files |-> <<>>, metadataCache |-> <<>>, path |-> "", hit |-> FALSE,
   returned |-> <<>>, calls |-> 0]

-----------------------------------------------------------------------------
(* Number formatting *)

\* parseFloat((bytes / 1024).toFixed(2)), in hundredths of a KB.  bytes/1024 is
\* exact in a double and toFixed rounds the exact value, ties upward.
ToFixed2KB(bytes) == (bytes * 100 + 512) \div 1024

\* Math.round(num / den) for num >= 0, den > 0
MathRound(num, den) == (2 * num + den) \div (2 * den)

\* Math.ceil(num / den) for num >= 0, den > 0
MathCeil(num, den) == (num + den - 1) \div den

Max(a, b) == IF a >= b THEN a ELSE b
Min(a, b) == IF a <= b THEN a ELSE b

-----------------------------------------------------------------------------
(* The external image encoder (sharp), as a family of size functions.  An   *)
(* asset fixes the size of its encoding at every quality: a step function   *)
(* with two knees, not necessarily monotone.                                *)

EncodedBytes(asset, quality) ==
  IF quality < asset.knee1 THEN asset.low
  ELSE IF quality < asset.knee2 THEN asset.mid
  ELSE asset.high

\* sharp(...).resize(w * scale, h * scale) with scale = sqrt(target / original):
\* the pixel area, and with it the size, scales with the target; the asset
\* fixes the proportion (in quarters).
ResizedBytes(asset, targetSizeKB) == (targetSizeKB * 1024 * asset.gifFactor) \div 4

Knees == {26, 56, 90}
Sizes == {3000, 5000, 6000}

QualityAssets(formats, factors) ==
  { [format |-> f, originalBytes |-> 10240, knee1 |-> k1, knee2 |-> k2,
     low |-> a, mid |-> b, high |-> c, gifFactor |-> g] :
      f \in formats, g \in factors,
      k1 \in Knees, k2 \in {k \in Knees : k > 26}, a \in Sizes, b \in Sizes, c \in Sizes }

\* Assets whose size sits on both sides of the toFixed(2) rounding of a whole KB
BoundaryAssets ==
  { [format |-> "jpeg", originalBytes |-> n, knee1 |-> 26, knee2 |-> 56,
     low |-> 3000, mid |-> 5000, high |-> 6000, gifFactor |-> 4] :
      n \in {4096, 4101, 4102, 5120} }

ImageAssets ==
  {a \in QualityAssets({"jpeg", "png"}, {4}) : a.knee1 < a.knee2}
    \cup {a \in QualityAssets({"gif"}, {3, 4, 5}) : a.knee1 = 26 /\ a.knee2 = 56}
    \cup BoundaryAssets

Targets == {4, 5, 8, 10}

\* the revisions of compressImage: the first one (unnamed/part_003), the one
\* searching through one temporary file (unnamed/part_001, second file), the
\* buffer revision (services/imageCompression.js) and the cached one
Revisions == {"first", "tempfile", "buffer", "cached"}

-----------------------------------------------------------------------------
(* CompressionCache (services/compressionCache.js) *)

maxSize == 100
maxAge == 3600000

\* originalSize in hundredths of a KB, targetSize in KB
generateKey(format, originalSize, targetSize) ==
  <<format, (originalSize \div 10000) * 100, MathRound(1000 * targetSize, originalSize)>>

CacheIndex(c, key) ==
  IF \E i \in 1..Len(c) : c[i].key = key
  THEN CHOOSE i \in 1..Len(c) : c[i].key = key
  ELSE 0

CacheDelete(c, i) == [j \in 1..(Len(c) - 1) |-> IF j < i THEN c[j] ELSE c[j + 1]]

\* the value returned by get: <<>> for null, <<q>> for a hit
CacheGetValue(c, key, t) ==
  LET i == CacheIndex(c, key) IN
  IF i # 0 /\ t - c[i].timestamp < maxAge
  THEN <<MathRound(c[i].totalQuality, c[i].count)>>
  ELSE <<>>

\* get deleting an entry only when it is older than maxAge
CacheAfterGetInclusive(c, key, t) ==
  LET i == CacheIndex(c, key) IN
  IF i # 0 /\ ~(t - c[i].timestamp <= maxAge) THEN CacheDelete(c, i) ELSE c

\* the cache left behind by get: an expired entry is deleted
CacheAfterGet(c, key, t) ==
  LET i == CacheIndex(c, key) IN
  IF i # 0 /\ ~(t - c[i].timestamp < maxAge) THEN CacheDelete(c, i) ELSE c

\* index of the entry findOldestKey returns, 0 for null
findOldestKey(c, t) ==
  LET older == {i \in 1..Len(c) : c[i].timestamp < t} IN
  IF older = {} THEN 0
  ELSE CHOOSE i \in older : \A j \in older :
         \/ c[i].timestamp < c[j].timestamp
         \/ c[i].timestamp = c[j].timestamp /\ i <= j

\* set keeping only the latest quality of a bucket
CacheSetLatest(c, key, quality, t) ==
  LET i == CacheIndex(c, key) IN
  IF i # 0
  THEN [c EXCEPT ![i] = [key |-> key, totalQuality |-> quality, count |-> 1, timestamp |-> t]]
  ELSE LET o == IF Len(c) >= maxSize THEN findOldestKey(c, t) ELSE 0
           kept == IF o # 0 THEN CacheDelete(c, o) ELSE c
       IN Append(kept, [key |-> key, totalQuality |-> quality, count |-> 1, timestamp |-> t])

CacheSet(c, key, quality, t) ==
  LET i == CacheIndex(c, key) IN
  IF i # 0
  THEN [c EXCEPT ![i] = [key |-> key, totalQuality |-> @.totalQuality + quality,
                         count |-> @.count + 1, timestamp |-> t]]
  ELSE LET o == IF Len(c) >= maxSize THEN findOldestKey(c, t) ELSE 0
           kept == IF o # 0 THEN CacheDelete(c, o) ELSE c
       IN Append(kept, [key |-> key, totalQuality |-> quality, count |-> 1, timestamp |-> t])

-----------------------------------------------------------------------------
(* compressImage: the "buffer" revision is services/imageCompression.js, the *)
(* "cached" revision is the cache-seeded one (unnamed/part_002, second file) *)

maxIterations == 10
maxAttempts == 7

\* the guard of the copy-through return with a strict comparison
AlreadyWithinTargetStrict(originalSize, targetSizeKB) == originalSize < 100 * targetSizeKB

\* parseFloat(originalSizeKB) <= targetSizeKB
AlreadyWithinTarget(originalSize, targetSizeKB) == originalSize <= 100 * targetSizeKB

NoOutput == [kind |-> "none", quality |-> 0, bytes |-> 0]
NoResult == [action |-> "pending", originalSize |-> 0, compressedSize |-> 0,
             quality |-> 0, output |-> NoOutput]

IdleImage ==
  [pc |-> "idle", rev |-> "buffer", asset |-> CHOOSE a \in BoundaryAssets : a.originalBytes = 4096,
   targetSizeKB |-> 0, minQuality |-> 0, maxQuality |-> 0, bestQuality |-> 0,
   bestBuffer |-> <<>>, tempFile |-> <<>>, fitted |-> <<>>, iterations |-> 0,
   stopped |-> FALSE, encodes |-> 0,
   result |-> NoResult]

NewImage(rev, asset, targetSizeKB) ==
  [IdleImage EXCEPT !.pc = "start", !.rev = rev, !.asset = asset, !.targetSizeKB = targetSizeKB]

\* the initial quality estimate of the cached revision
InitialQuality(q, cachedQuality) ==
  IF cachedQuality # <<>> THEN cachedQuality[1]
  ELSE LET factor == CASE q.asset.format = "jpeg" -> 100
                       [] q.asset.format = "png" -> 80
                       [] q.asset.format = "webp" -> 90
                       [] OTHER -> 85
           estimate == MathRound(100 * q.targetSizeKB * factor, ToFixed2KB(q.asset.originalBytes))
       IN Max(10, Min(95, estimate))

\* the request when the search loop is entered
SearchStart(q, cachedQuality) ==
  IF q.rev = "buffer"
  THEN [q EXCEPT !.pc = "search", !.minQuality = 10, !.maxQuality = 100, !.bestQuality = 10]
  ELSE IF q.rev \in {"first", "tempfile"}
  THEN [q EXCEPT !.pc = "search", !.minQuality = 10, !.maxQuality = 100, !.bestQuality = 80]
  ELSE LET initialQuality == InitialQuality(q, cachedQuality)
           narrow == initialQuality > 10 /\ initialQuality < 95
       IN [q EXCEPT !.pc = "search",
                    !.minQuality = IF narrow THEN Max(10, initialQuality - 20) ELSE 10,
                    !.maxQuality = IF narrow THEN Min(95, initialQuality + 20) ELSE 95,
                    !.bestQuality = initialQuality]

\* the loop condition with a budget of three iterations
LoopConditionBudgetThree(q) ==
  /\ q.minQuality <= q.maxQuality
  /\ q.iterations < 3
  /\ ~q.stopped

LoopCondition(q) ==
  /\ q.minQuality <= q.maxQuality
  /\ \/ q.rev \in {"first", "tempfile"}
     \/ q.iterations < (IF q.rev = "buffer" THEN maxIterations ELSE maxAttempts)
  /\ ~q.stopped

\* the bytes of the candidate encoded in one iteration
CandidateBytes(q, quality) ==
  IF q.rev = "buffer" /\ q.asset.format = "gif"
  THEN ResizedBytes(q.asset, q.targetSizeKB)
  ELSE EncodedBytes(q.asset, quality)

\* the size test of an iteration: the cached revision compares the unrounded
\* quotient, the others the toFixed(2) value
MeetsTarget(q, bytes) ==
  IF q.rev # "cached" THEN ToFixed2KB(bytes) <= 100 * q.targetSizeKB
  ELSE bytes <= 1024 * q.targetSizeKB

\* the early exit with a candidate of exactly the target size left out
EarlyExitBelowTarget(q, bytes) ==
  /\ q.rev = "buffer"
  /\ ToFixed2KB(bytes) >= 95 * q.targetSizeKB
  /\ ToFixed2KB(bytes) < 100 * q.targetSizeKB

\* sizeRatio >= 0.95 && sizeRatio <= 1.0 (buffer revision only)
EarlyExit(q, bytes) ==
  /\ q.rev = "buffer"
  /\ ToFixed2KB(bytes) >= 95 * q.targetSizeKB
  /\ ToFixed2KB(bytes) <= 100 * q.targetSizeKB

\* an iteration that records the buffer of a fitting candidate, not its quality
SearchIterationStaleBest(q) ==
  LET quality == (q.minQuality + q.maxQuality) \div 2
      bytes == CandidateBytes(q, quality)
      fits == MeetsTarget(q, bytes)
  IN [q EXCEPT !.iterations = @ + 1,
               !.encodes = @ + 1,
               !.bestBuffer = IF fits /\ q.rev \in {"buffer", "cached"}
                              THEN <<[quality |-> quality, bytes |-> bytes]>> ELSE @,
               !.fitted = IF fits THEN <<[quality |-> quality, bytes |-> bytes]>> ELSE @,
               !.tempFile = IF q.rev = "tempfile"
                            THEN <<[quality |-> quality, bytes |-> bytes]>> ELSE @,
               !.minQuality = IF fits THEN quality + 1 ELSE @,
               !.maxQuality = IF fits THEN @ ELSE quality - 1,
               !.stopped = EarlyExit(q, bytes)]

\* an iteration that keeps the tested quality in the interval when it fits
SearchIterationKeepsMid(q) ==
  LET quality == (q.minQuality + q.maxQuality) \div 2
      bytes == CandidateBytes(q, quality)
      fits == MeetsTarget(q, bytes)
  IN [q EXCEPT !.iterations = @ + 1,
               !.encodes = @ + 1,
               !.bestQuality = IF fits THEN quality ELSE @,
               !.bestBuffer = IF fits /\ q.rev \in {"buffer", "cached"}
                              THEN <<[quality |-> quality, bytes |-> bytes]>> ELSE @,
               !.fitted = IF fits THEN <<[quality |-> quality, bytes |-> bytes]>> ELSE @,
               !.tempFile = IF q.rev = "tempfile"
                            THEN <<[quality |-> quality, bytes |-> bytes]>> ELSE @,
               !.minQuality = IF fits THEN quality ELSE @,
               !.maxQuality = IF fits THEN @ ELSE quality - 1,
               !.stopped = EarlyExit(q, bytes)]

\* one iteration of the while loop
SearchIteration(q) ==
  LET quality == (q.minQuality + q.maxQuality) \div 2
      bytes == CandidateBytes(q, quality)
      fits == MeetsTarget(q, bytes)
  IN [q EXCEPT !.iterations = @ + 1,
               !.encodes = @ + 1,
               !.bestQuality = IF fits THEN quality ELSE @,
               !.bestBuffer = IF fits /\ q.rev \in {"buffer", "cached"}
                              THEN <<[quality |-> quality, bytes |-> bytes]>> ELSE @,
               !.fitted = IF fits THEN <<[quality |-> quality, bytes |-> bytes]>> ELSE @,
               !.tempFile = IF q.rev = "tempfile"
                            THEN <<[quality |-> quality, bytes |-> bytes]>> ELSE @,
               !.minQuality = IF fits THEN quality + 1 ELSE @,
               !.maxQuality = IF fits THEN @ ELSE quality - 1,
               !.stopped = EarlyExit(q, bytes)]

\* what follows the loop.  First revision: one more encoding at bestQuality.
\* Temporary-file revision: the temporary file is moved to the output.  Buffer
\* and cached revisions: the floor fallback when no candidate fitted, else the
\* write of the best buffer.
SearchFinish(q) ==
  LET fallback == q.rev \in {"buffer", "cached"} /\ q.bestBuffer = <<>>
      final == CASE q.rev = "first" ->
                      [quality |-> q.bestQuality, bytes |-> EncodedBytes(q.asset, q.bestQuality)]
                 [] q.rev = "tempfile" -> q.tempFile[1]
                 [] fallback -> [quality |-> 10, bytes |-> EncodedBytes(q.asset, 10)]
                 [] OTHER -> q.bestBuffer[1]
      bestQuality == IF fallback THEN 10 ELSE q.bestQuality
  IN [q EXCEPT !.pc = "done",
               !.bestQuality = bestQuality,
               !.encodes = IF fallback \/ q.rev = "first" THEN @ + 1 ELSE @,
               !.result = [action |-> "compressed",
                           originalSize |-> ToFixed2KB(q.asset.originalBytes),
                           compressedSize |-> ToFixed2KB(final.bytes),
                           quality |-> bestQuality,
                           output |-> [kind |-> "encoded", quality |-> final.quality,
                                       bytes |-> final.bytes]]]

\* the copy-through return
CopiedResult(originalBytes) ==
  [action |-> "copied", originalSize |-> ToFixed2KB(originalBytes),
   compressedSize |-> ToFixed2KB(originalBytes), quality |-> 0,
   output |-> [kind |-> "copy", quality |-> 0, bytes |-> originalBytes]]

RequestKey(q) ==
  generateKey(q.asset.format, ToFixed2KB(q.asset.originalBytes), q.targetSizeKB)

ImageStart(r) ==
  LET q == img[r] IN
  /\ q.pc = "start"
  /\ IF AlreadyWithinTarget(ToFixed2KB(q.asset.originalBytes), q.targetSizeKB)
     THEN /\ img' = [img EXCEPT ![r] = [q EXCEPT !.pc = "done",
                                                 !.result = CopiedResult(q.asset.originalBytes)]]
          /\ cache' = cache
     ELSE IF q.rev = "cached"
     THEN /\ img' = [img EXCEPT ![r] = SearchStart(q, CacheGetValue(cache, RequestKey(q), now))]
          /\ cache' = CacheAfterGet(cache, RequestKey(q), now)
     ELSE /\ img' = [img EXCEPT ![r] = SearchStart(q, <<>>)]
          /\ cache' = cache
  /\ UNCHANGED <<now, vid, webm, det, call, meta, twopass>>

ImageIterate(r) ==
  /\ img[r].pc = "search"
  /\ LoopCondition(img[r])
  /\ img' = [img EXCEPT ![r] = SearchIteration(@)]
  /\ UNCHANGED <<cache, now, vid, webm, det, call, meta, twopass>>

ImageFinish(r) ==
  /\ img[r].pc = "search"
  /\ ~LoopCondition(img[r])
  /\ img' = [img EXCEPT ![r] = SearchFinish(@)]
  /\ cache' = IF img[r].rev = "cached"
              THEN CacheSet(cache, RequestKey(img[r]), SearchFinish(img[r]).bestQuality, now)
              ELSE cache
  /\ UNCHANGED <<now, vid, webm, det, call, meta, twopass>>

\* the search run to its end, as a function of the request at loop entry
RECURSIVE RunSearch(_)
RunSearch(q) == IF LoopCondition(q) THEN RunSearch(SearchIteration(q)) ELSE SearchFinish(q)

\* the quality compressImage reports for an asset, a target and what get returned
ChosenQuality(rev, asset, targetSizeKB, cachedQuality) ==
  RunSearch(SearchStart(NewImage(rev, asset, targetSizeKB), cachedQuality)).result.quality

-----------------------------------------------------------------------------
(* compressVideo and the batched splitVideo (services/videoCompression.js,  *)
(* second file).  duration is in milliseconds.                              *)

maxConcurrent == 2

\* Math.floor((targetSizeKB * 0.92 - 128 * seconds / 8) * 8 / seconds), clamped
\* to 100 kbps; the segment lasts durationMs / parts
\* the bitrate computed from the whole target, without the safety margin
TargetBitrateNoMargin(targetSizeKB, durationMs, parts) ==
  LET computed == (8000 * targetSizeKB * parts - 128 * durationMs) \div durationMs
  IN IF computed < 100 THEN 100 ELSE computed

TargetBitrate(targetSizeKB, durationMs, parts) ==
  LET computed == (7360 * targetSizeKB * parts - 128 * durationMs) \div durationMs
  IN IF computed < 100 THEN 100 ELSE computed

\* floor + 1 in place of ceil
TotalPartsFloorPlusOne(originalSize, targetSizeKB) ==
  (originalSize \div (100 * targetSizeKB)) + 1

\* Math.ceil(parseFloat(originalSizeKB) / targetSizeKB)
TotalParts(originalSize, targetSizeKB) == MathCeil(originalSize, 100 * targetSizeKB)

\* the quotient truncated to a whole number
SegmentDurationFloored(duration, totalParts) == (duration \div totalParts) * totalParts

\* videoInfo.duration / totalParts as a numerator over totalParts: the
\* division is exact in the rationals
SegmentDuration(duration, totalParts) == duration

\* the start computed from the index within the batch
BatchStartTimeInBatch(partIndex, segmentDuration) ==
  (partIndex % maxConcurrent) * segmentDuration

\* partIndex * segmentDuration, as a numerator over totalParts
BatchStartTime(partIndex, segmentDuration) == partIndex * segmentDuration

\* every remaining part started at once
BatchOfAll(i, totalParts) == [j \in 1..(totalParts - i) |-> i + (j - 1)]

\* the part indices of the batch that begins at i
BatchOf(i, totalParts) ==
  [j \in 1..Min(maxConcurrent, totalParts - i) |-> i + (j - 1)]

\* the encoder's output for a segment: the asset fixes it
SegmentBytes(originalBytes, totalParts, partIndex) ==
  (originalBytes \div totalParts) + partIndex

\* the object processPart returns, from the values its closure captured
PartRecord(job, v) ==
  [partNumber |-> job.partIndex + 1,
   size |-> ToFixed2KB(SegmentBytes(v.originalBytes, v.totalParts, job.partIndex)),
   duration |-> SegmentDuration(v.durationMs, v.totalParts),
   startTime |-> job.startTime,
   scale |-> v.totalParts]

\* Array.prototype.sort by partNumber (stable): insertion of each element
RECURSIVE InsertPart(_, _)
InsertPart(sorted, p) ==
  IF sorted = <<>> THEN <<p>>
  ELSE IF sorted[Len(sorted)].partNumber <= p.partNumber THEN Append(sorted, p)
  ELSE Append(InsertPart(SubSeq(sorted, 1, Len(sorted) - 1), p), sorted[Len(sorted)])

RECURSIVE SortByPartNumber(_)
SortByPartNumber(parts) ==
  IF parts = <<>> THEN <<>>
  ELSE InsertPart(SortByPartNumber(SubSeq(parts, 1, Len(parts) - 1)), parts[Len(parts)])

NoJob == [state |-> "pending", partIndex |-> 0, startTime |-> 0]

NoVideoResult == [action |-> "pending", originalSize |-> 0, compressedSize |-> 0,
                  totalParts |-> 0, parts |-> <<>>]

IdleVideo ==
  [pc |-> "idle", op |-> "compressVideo", originalBytes |-> 0, targetSizeKB |-> 0,
   durationMs |-> 0, totalParts |-> 0, targetBitrate |-> 0, i |-> 0, jobs |-> <<>>,
   parts |-> <<>>, encodes |-> 0, finished |-> <<>>, passLog |-> FALSE,
   result |-> NoVideoResult]

NewVideo(op, originalBytes, targetSizeKB, durationMs) ==
  [IdleVideo EXCEPT !.pc = "start", !.op = op, !.originalBytes = originalBytes,
                    !.targetSizeKB = targetSizeKB, !.durationMs = durationMs]

\* processPart called for every index of the batch at i: each call runs up to
\* the start of its encoder
StartBatch(v, i) ==
  LET batch == BatchOf(i, v.totalParts)
      started == {batch[j] : j \in 1..Len(batch)}
  IN [v EXCEPT !.pc = "await", !.i = i,
               !.encodes = @ + Len(batch),
               !.jobs = [k \in 1..Len(@) |->
                           IF (k - 1) \in started
                           THEN [state |-> "encoding", partIndex |-> k - 1,
                                 startTime |->
                                   BatchStartTime(k - 1, SegmentDuration(v.durationMs,
                                                                         v.totalParts))]
                           ELSE @[k]]]

VideoCopied(v) ==
  [v EXCEPT !.pc = "done",
            !.result = [action |-> "copied",
                        originalSize |-> ToFixed2KB(v.originalBytes),
                        compressedSize |-> ToFixed2KB(v.originalBytes),
                        totalParts |-> IF v.op = "splitVideo" THEN 1 ELSE 0,
                        parts |-> IF v.op = "splitVideo"
                                  THEN <<[partNumber |-> 1, size |-> ToFixed2KB(v.originalBytes),
                                          duration |-> v.durationMs, startTime |-> 0,
                                          scale |-> 1]>>
                                  ELSE <<>>]]

VideoStart ==
  /\ vid.pc = "start"
  /\ IF AlreadyWithinTarget(ToFixed2KB(vid.originalBytes), vid.targetSizeKB)
     THEN vid' = VideoCopied(vid)
     ELSE IF vid.op = "compressVideo"
     THEN vid' = [vid EXCEPT !.pc = "pass1", !.encodes = @ + 1,
                             !.targetBitrate = TargetBitrate(vid.targetSizeKB, vid.durationMs, 1)]
     ELSE LET totalParts == TotalParts(ToFixed2KB(vid.originalBytes), vid.targetSizeKB)
              planned == [vid EXCEPT !.totalParts = totalParts,
                                     !.targetBitrate =
                                        TargetBitrate(vid.targetSizeKB, vid.durationMs, totalParts),
                                     !.jobs = [k \in 1..totalParts |-> NoJob]]
          IN vid' = StartBatch(planned, 0)
  /\ UNCHANGED <<img, cache, now, webm, det, call, meta, twopass>>

\* getVideoInfo rejects: splitVideo probes before the size test, compressVideo
\* only when it has to encode
VideoProbeError ==
  /\ vid.pc = "start"
  /\ \/ vid.op = "splitVideo"
     \/ ~AlreadyWithinTarget(ToFixed2KB(vid.originalBytes), vid.targetSizeKB)
  /\ vid' = [vid EXCEPT !.pc = "failed"]
  /\ UNCHANGED <<img, cache, now, webm, det, call, meta, twopass>>

\* pass 1 has ended: its log files passlog_<t>-0.log(.mbtree) are on disk
Pass1End ==
  /\ vid.pc = "pass1"
  /\ vid' = [vid EXCEPT !.pc = "pass2", !.encodes = @ + 1, !.passLog = TRUE]
  /\ UNCHANGED <<img, cache, now, webm, det, call, meta, twopass>>

Pass2End ==
  /\ vid.pc = "pass2"
  /\ vid' = [vid EXCEPT !.pc = "done",
                        !.passLog = FALSE,
                        !.result = [action |-> "compressed",
                                    originalSize |-> ToFixed2KB(vid.originalBytes),
                                    compressedSize |->
                                      ToFixed2KB(SegmentBytes(vid.originalBytes, 2, 0)),
                                    totalParts |-> 0, parts |-> <<>>]]
  /\ UNCHANGED <<img, cache, now, webm, det, call, meta, twopass>>

PassError ==
  /\ vid.pc \in {"pass1", "pass2"}
  /\ vid' = [vid EXCEPT !.pc = "failed"]
  /\ UNCHANGED <<img, cache, now, webm, det, call, meta, twopass>>

\* the encoder of part k emits 'end': processPart goes on to fs.stat
JobEnd(k) ==
  /\ k \in 1..Len(vid.jobs)
  /\ vid.jobs[k].state = "encoding"
  /\ vid' = [vid EXCEPT !.jobs[k].state = "stat"]
  /\ UNCHANGED <<img, cache, now, webm, det, call, meta, twopass>>

\* the encoder of part k emits 'error': processPart rejects
JobError(k) ==
  /\ k \in 1..Len(vid.jobs)
  /\ vid.jobs[k].state = "encoding"
  /\ vid' = [vid EXCEPT !.jobs[k].state = "rejected"]
  /\ UNCHANGED <<img, cache, now, webm, det, call, meta, twopass>>

\* fs.stat returns: processPart resolves with its part record; finished keeps
\* the order in which the jobs completed
JobStat(k) ==
  /\ k \in 1..Len(vid.jobs)
  /\ vid.jobs[k].state = "stat"
  /\ vid' = [vid EXCEPT !.jobs[k].state = "resolved", !.finished = Append(@, k)]
  /\ UNCHANGED <<img, cache, now, webm, det, call, meta, twopass>>

CurrentBatch(v) == BatchOf(v.i, v.totalParts)

\* Promise.all(batch) resolves: push the results in batch order, then start
\* the next batch, or sort and return
BatchSettled ==
  LET batch == CurrentBatch(vid)
      batchResults == [j \in 1..Len(batch) |-> PartRecord(vid.jobs[batch[j] + 1], vid)]
      pushed == [vid EXCEPT !.parts = @ \o batchResults]
      next == vid.i + maxConcurrent
  IN /\ vid.pc = "await"
     /\ \A j \in 1..Len(batch) : vid.jobs[batch[j] + 1].state = "resolved"
     /\ IF next < vid.totalParts
        THEN vid' = StartBatch(pushed, next)
        ELSE vid' = [pushed EXCEPT !.pc = "done", !.i = next,
                                   !.parts = SortByPartNumber(pushed.parts),
                                   !.result = [action |-> "split",
                                               originalSize |-> ToFixed2KB(vid.originalBytes),
                                               compressedSize |-> 0,
                                               totalParts |-> vid.totalParts,
                                               parts |-> SortByPartNumber(pushed.parts)]]
     /\ UNCHANGED <<img, cache, now, webm, det, call, meta, twopass>>

\* Promise.all(batch) rejects as soon as one of its jobs has rejected
BatchRejected ==
  LET batch == CurrentBatch(vid) IN
  /\ vid.pc = "await"
  /\ \E j \in 1..Len(batch) : vid.jobs[batch[j] + 1].state = "rejected"
  /\ vid' = [vid EXCEPT !.pc = "failed"]
  /\ UNCHANGED <<img, cache, now, webm, det, call, meta, twopass>>

VideoSizes == {4096, 4101, 4102, 8192, 8197, 8300, 16384, 20480}
VideoTargets == {4, 5}
Durations == {120500, 7000}

\* files of a few KB against targets of a few KB, whose bitrate is always
\* raised to the floor, and a 1 MB file against 500 KB, whose bitrate is not
\* when it lasts 7 s
VideoRequests ==
  {[originalBytes |-> b, targetSizeKB |-> t] : b \in VideoSizes, t \in VideoTargets}
    \cup {[originalBytes |-> 1048576, targetSizeKB |-> 500]}

InitVideo ==
  \E op \in {"compressVideo", "splitVideo"}, request \in VideoRequests,
     durationMs \in Durations :
    /\ vid = NewVideo(op, request.originalBytes, request.targetSizeKB, durationMs)
    /\ img = [r \in Reqs |-> IdleImage]
    /\ cache = <<>>
    /\ now = maxAge
    /\ call = NoCall
    /\ meta = IdleMeta
    /\ twopass = IdleTwoPass
    /\ webm = IdleWebm
    /\ det = IdleDetector

NextVideo ==
  \/ VideoStart
  \/ VideoProbeError
  \/ Pass1End
  \/ Pass2End
  \/ PassError
  \/ \E k \in 1..Len(vid.jobs) : JobEnd(k) \/ JobError(k) \/ JobStat(k)
  \/ BatchSettled
  \/ BatchRejected

SpecVideo == InitVideo /\ [][NextVideo]_vars

-----------------------------------------------------------------------------
(* detectQualityChanges: the "debounced" revision is unnamed/part_000, the   *)
(* "legacy" revision is services/webmProcessor.js.  Timestamps are seconds,  *)
(* bitrates kbps; a resolution token WxH is kept as its height, 0 for ''.    *)

minInterval == 3
bitrateThreshold == 150
legacyBitrateThreshold == 100
dedupWindow == 2

NoToken == -1

\* the lines the diagnostic stream may carry: a time= token or none, a
\* "bitrate: N kbits/s" token or none, a WxH token or none
Times == {3, 4, 6, 10}
Tokens == {<<2500, 1080>>, <<1500, 1080>>, <<1500, 720>>, <<2350, NoToken>>, <<NoToken, 720>>}
Lines ==
  {[time |-> t, bitrate |-> k[1], resolution |-> k[2]] : t \in Times, k \in Tokens}
    \cup {[time |-> NoToken, bitrate |-> 1500, resolution |-> 720]}

Abs(x) == IF x < 0 THEN -x ELSE x

Event(timestamp, type, from, to) ==
  [timestamp |-> timestamp, type |-> type, from |-> from, to |-> to]

\* the bitrate block of the stderr handler: push when the change exceeds the
\* threshold (and, in the legacy revision, the line has a timestamp), then
\* remember the current bitrate
\* the bitrate block with a change of exactly the threshold counted as well
OnBitrateInclusive(d, line, threshold) ==
  IF line.bitrate = NoToken THEN d
  ELSE LET changed == /\ d.previousBitrate > 0
                      /\ Abs(line.bitrate - d.previousBitrate) >= threshold
                      /\ line.time # NoToken
       IN [d EXCEPT !.qualityChanges =
                       IF changed
                       THEN Append(@, Event(line.time, "bitrate_change",
                                            d.previousBitrate, line.bitrate))
                       ELSE @,
                    !.previousBitrate = line.bitrate]

OnBitrate(d, line, threshold) ==
  IF line.bitrate = NoToken THEN d
  ELSE LET changed == /\ d.previousBitrate > 0
                      /\ Abs(line.bitrate - d.previousBitrate) > threshold
                      /\ line.time # NoToken
       IN [d EXCEPT !.qualityChanges =
                       IF changed
                       THEN Append(@, Event(line.time, "bitrate_change",
                                            d.previousBitrate, line.bitrate))
                       ELSE @,
                    !.previousBitrate = line.bitrate]

\* the resolution block of the stderr handler
OnResolution(d, line) ==
  IF line.resolution = NoToken THEN d
  ELSE LET changed == /\ d.previousResolution # 0
                      /\ line.resolution # d.previousResolution
                      /\ line.time # NoToken
       IN [d EXCEPT !.qualityChanges =
                       IF changed
                       THEN Append(@, Event(line.time, "resolution_change",
                                            d.previousResolution, line.resolution))
                       ELSE @,
                    !.previousResolution = line.resolution]

\* the 'stderr' handler of one line
OnStderr(d, line) ==
  IF d.rev = "legacy"
  THEN OnResolution(OnBitrate(d, line, legacyBitrateThreshold), line)
  ELSE IF line.time = NoToken THEN d
  ELSE IF line.time - d.lastTimestamp < minInterval THEN d
  ELSE OnResolution(OnBitrate([d EXCEPT !.lastTimestamp = line.time], line,
                              bitrateThreshold), line)

\* self.findIndex(c => ...) of the dedup filter
FirstMatch(changes, change, rev) ==
  CHOOSE i \in 1..Len(changes) :
    /\ IF rev = "legacy" THEN changes[i].timestamp = change.timestamp
       ELSE Abs(changes[i].timestamp - change.timestamp) < dedupWindow
    /\ \A j \in 1..(i - 1) :
         ~(IF rev = "legacy" THEN changes[j].timestamp = change.timestamp
           ELSE Abs(changes[j].timestamp - change.timestamp) < dedupWindow)

RECURSIVE FilterUnique(_, _, _)
FilterUnique(changes, n, rev) ==
  IF n = 0 THEN <<>>
  ELSE IF FirstMatch(changes, changes[n], rev) = n
       THEN Append(FilterUnique(changes, n - 1, rev), changes[n])
       ELSE FilterUnique(changes, n - 1, rev)

RECURSIVE InsertEvent(_, _)
InsertEvent(sorted, e) ==
  IF sorted = <<>> THEN <<e>>
  ELSE IF sorted[Len(sorted)].timestamp <= e.timestamp THEN Append(sorted, e)
  ELSE Append(InsertEvent(SubSeq(sorted, 1, Len(sorted) - 1), e), sorted[Len(sorted)])

RECURSIVE SortByTimestamp(_)
SortByTimestamp(changes) ==
  IF changes = <<>> THEN <<>>
  ELSE InsertEvent(SortByTimestamp(SubSeq(changes, 1, Len(changes) - 1)),
                   changes[Len(changes)])

\* the list the 'end' handler resolves with
UniqueChanges(changes, rev) == SortByTimestamp(FilterUnique(changes, Len(changes), rev))

\* a promise that every call of resolve / reject settles anew
SettleAnew(promise, state, value) == [state |-> state, value |-> value]

\* resolve / reject settle a promise once; later calls do nothing
Settle(promise, state, value) ==
  IF promise.state = "pending" THEN [state |-> state, value |-> value] ELSE promise

\* the call: the timer is armed (debounced revision) and the analysis pass runs
\* traced: the lines consumed are also kept in stream, for the statements
\* that speak of the stream's content
StartedDetector(rev, traced) ==
  [IdleDetector EXCEPT !.pc = "running", !.rev = rev, !.proc = "running",
                       !.timer = IF rev = "debounced" THEN "armed" ELSE "none",
                       !.traced = traced]

\* the analysis pass writes a line; the time= of its progress lines never
\* goes back
StderrLine(line) ==
  /\ det.pc = "running"
  /\ det.proc = "running"
  /\ det.lines < MaxLines
  /\ line.time = NoToken \/ line.time >= det.clock
  /\ det' = [OnStderr(det, line) EXCEPT
               !.lines = @ + 1,
               !.clock = IF line.time = NoToken THEN @ ELSE line.time,
               !.stream = IF det.traced THEN Append(@, line) ELSE @]
  /\ UNCHANGED <<img, cache, now, vid, webm, call, meta, twopass>>

StreamEnd ==
  /\ det.pc = "running"
  /\ det.proc = "running"
  /\ det' = [det EXCEPT !.proc = "ended",
                        !.timer = IF @ = "armed" THEN "cleared" ELSE @,
                        !.promise = Settle(@, "resolved",
                                           UniqueChanges(det.qualityChanges, det.rev))]
  /\ UNCHANGED <<img, cache, now, vid, webm, call, meta, twopass>>

EncoderError ==
  /\ det.pc = "running"
  /\ det.proc = "running"
  /\ det' = [det EXCEPT !.proc = "errored",
                        !.timer = IF @ = "armed" THEN "cleared" ELSE @,
                        !.promise = IF det.rev = "legacy"
                                    THEN Settle(@, "rejected", <<>>)
                                    ELSE Settle(@, "resolved", <<>>)]
  /\ UNCHANGED <<img, cache, now, vid, webm, call, meta, twopass>>

Timeout ==
  /\ det.pc = "running"
  /\ det.timer = "armed"
  /\ det' = [det EXCEPT !.timer = "fired", !.promise = Settle(@, "resolved", <<>>)]
  /\ UNCHANGED <<img, cache, now, vid, webm, call, meta, twopass>>

DetectorSteps ==
  \/ \E line \in Lines : StderrLine(line)
  \/ StreamEnd
  \/ EncoderError
  \/ Timeout

-----------------------------------------------------------------------------
(* detectWebMQualityChange.  The "fallback" revision is unnamed/part_000:    *)
(* segments are encoded one after the other, each through the chain VP9,     *)
(* VP8, default, and an empty detection falls back to the uniform plan.  The *)
(* "parallel" revision is services/webmProcessor.js: every segment is        *)
(* encoded at once with VP9 alone.  duration is in seconds.                  *)

DetectorOf(rev) == IF rev = "fallback" THEN "debounced" ELSE "legacy"

\* qualityChanges.find(qc => qc.timestamp === startTime) || null
FindChange(qualityChanges, startTime) ==
  LET hits == {k \in 1..Len(qualityChanges) : qualityChanges[k].timestamp = startTime}
  IN IF hits = {} THEN <<>>
     ELSE <<qualityChanges[CHOOSE k \in hits : \A h \in hits : k <= h]>>

\* the plan with every segment longer than 4 s cut in two halves
PlanBoundariesSubdivided(qualityChanges, duration) ==
  LET splitPoints == <<0>> \o [k \in 1..Len(qualityChanges) |-> qualityChanges[k].timestamp]
                       \o <<duration>>
      n == Len(splitPoints) - 1
      long == {i \in 1..n : splitPoints[i + 1] - splitPoints[i] > 4}
      first == IF long = {} THEN 0 ELSE CHOOSE i \in long : \A j \in long : i <= j
      mid == IF first = 0 THEN 0 ELSE (splitPoints[first] + splitPoints[first + 1]) \div 2
      points == IF first = 0 THEN splitPoints
                ELSE SubSeq(splitPoints, 1, first) \o <<mid>>
                       \o SubSeq(splitPoints, first + 1, Len(splitPoints))
  IN [i \in 1..(Len(points) - 1) |->
        [startTime |-> points[i],
         endTime |-> points[i + 1],
         duration |-> points[i + 1] - points[i],
         qualityChange |-> FindChange(qualityChanges, points[i])]]

\* the segments between the split points 0, the event timestamps, duration
PlanBoundaries(qualityChanges, duration) ==
  LET splitPoints == <<0>> \o [k \in 1..Len(qualityChanges) |-> qualityChanges[k].timestamp]
                       \o <<duration>>
  IN [i \in 1..(Len(splitPoints) - 1) |->
        [startTime |-> splitPoints[i],
         endTime |-> splitPoints[i + 1],
         duration |-> splitPoints[i + 1] - splitPoints[i],
         qualityChange |-> FindChange(qualityChanges, splitPoints[i])]]

\* the size-based plan, its times numerators over totalParts
PlanUniform(originalSize, targetSizeKB, duration) ==
  LET totalParts == TotalParts(originalSize, targetSizeKB)
      segmentDuration == SegmentDuration(duration, totalParts)
  IN [k \in 1..totalParts |->
        LET startTime == (k - 1) * segmentDuration
            endTime == Min(k * segmentDuration, duration * totalParts)
        IN [startTime |-> startTime, endTime |-> endTime,
            duration |-> endTime - startTime, qualityChange |-> <<>>]]

\* the configuration an 'error' handler turns to; "none": it rejects
NextConfigNoDefault(config) == IF config = "vp9" THEN "vp8" ELSE "none"

\* an 'error' handler of VP9 turning to default, and that of default to VP8
NextConfigDefaultFirst(config) ==
  IF config = "vp9" THEN "default" ELSE IF config = "default" THEN "vp8" ELSE "none"

NextConfig(config) ==
  IF config = "vp9" THEN "vp8" ELSE IF config = "vp8" THEN "default" ELSE "none"

\* the catch block: throw new Error(`... ${error.message}`).  The new message
\* has the same prefix whatever stage failed, so it names no stage, and it
\* carries the message of the one error that was caught: configs lists the
\* configurations whose failure that error reports.
WebmThrown(w, configs) ==
  [w EXCEPT !.pc = "failed", !.thrown = <<[stage |-> <<>>, configs |-> configs]>>]

NoWebmJob == [state |-> "pending", config |-> "none", chain |-> <<>>]

NewWebm(rev, originalBytes, targetSizeKB, duration) ==
  [IdleWebm EXCEPT !.pc = "start", !.rev = rev, !.originalBytes = originalBytes,
                   !.targetSizeKB = targetSizeKB, !.duration = duration]

\* the element pushed to parts for segment k
WebmPartRecord(w, k) ==
  [partNumber |-> k,
   size |-> ToFixed2KB(SegmentBytes(w.originalBytes, Len(w.segments), k - 1)),
   duration |-> w.segments[k].duration,
   startTime |-> w.segments[k].startTime,
   endTime |-> w.segments[k].endTime,
   qualityChange |-> w.segments[k].qualityChange,
   scale |-> w.scale]

WebmCopied(w) ==
  [w EXCEPT !.pc = "done",
            !.result = [action |-> "copied",
                        originalSize |-> ToFixed2KB(w.originalBytes),
                        totalParts |-> 1,
                        qualityChanges |-> <<>>,
                        parts |-> <<[partNumber |-> 1,
                                     size |-> ToFixed2KB(w.originalBytes),
                                     duration |-> w.duration, startTime |-> 0,
                                     endTime |-> w.duration, qualityChange |-> <<>>,
                                     scale |-> 1]>>]]

WebmReturned(w, parts) ==
  [w EXCEPT !.pc = "done",
            !.parts = parts,
            !.result = [action |-> IF w.rev = "parallel" \/ Len(w.qualityChanges) > 0
                                   THEN "split_with_quality_detection"
                                   ELSE "split_default",
                        originalSize |-> ToFixed2KB(w.originalBytes),
                        totalParts |-> Len(parts),
                        qualityChanges |-> w.qualityChanges,
                        parts |-> parts]]

\* the encoder of segment k is started with the first configuration
StartJob(w, k) ==
  [w EXCEPT !.jobs[k] = [state |-> "encoding", config |-> "vp9", chain |-> <<>>],
            !.encodes = @ + 1]

RECURSIVE StartAllJobs(_, _)
StartAllJobs(w, n) == IF n = 0 THEN w ELSE StartJob(StartAllJobs(w, n - 1), n)

\* the probe has answered: copy, or start the detection
WebmStart ==
  /\ webm.pc = "start"
  /\ IF AlreadyWithinTarget(ToFixed2KB(webm.originalBytes), webm.targetSizeKB)
     THEN /\ webm' = WebmCopied(webm)
          /\ det' = det
     ELSE /\ webm' = [webm EXCEPT !.pc = "detect"]
          /\ det' = StartedDetector(DetectorOf(webm.rev), FALSE)
  /\ UNCHANGED <<img, cache, now, vid, call, meta, twopass>>

\* getWebMInfo rejects
WebmProbeError ==
  /\ webm.pc = "start"
  /\ webm' = WebmThrown(webm, <<>>)
  /\ UNCHANGED <<img, cache, now, vid, det, call, meta, twopass>>

\* detectQualityChanges has resolved: plan the segments and start encoding
WebmPlan ==
  LET qualityChanges == det.promise.value
      uniform == webm.rev = "fallback" /\ Len(qualityChanges) = 0
      segments == IF uniform
                  THEN PlanUniform(ToFixed2KB(webm.originalBytes), webm.targetSizeKB,
                                   webm.duration)
                  ELSE PlanBoundaries(qualityChanges, webm.duration)
      planned == [webm EXCEPT !.qualityChanges = qualityChanges,
                              !.segments = segments,
                              !.scale = IF uniform THEN Len(segments) ELSE 1,
                              !.jobs = [k \in 1..Len(segments) |-> NoWebmJob]]
  IN /\ webm.pc = "detect"
     /\ det.promise.state = "resolved"
     /\ webm' = IF webm.rev = "fallback"
                THEN StartJob([planned EXCEPT !.pc = "encode", !.i = 0], 1)
                ELSE StartAllJobs([planned EXCEPT !.pc = "await"], Len(segments))
     /\ det' = IdleDetector
     /\ UNCHANGED <<img, cache, now, vid, call, meta, twopass>>

\* detectQualityChanges has rejected: the catch block rethrows
WebmDetectRejected ==
  /\ webm.pc = "detect"
  /\ det.promise.state = "rejected"
  /\ webm' = WebmThrown(webm, <<>>)
  /\ det' = IdleDetector
  /\ UNCHANGED <<img, cache, now, vid, call, meta, twopass>>

\* fallback revision, 'end' of the running configuration of segment i: the
\* promise resolves, the part is pushed, the loop goes on
AttemptEnd ==
  LET k == webm.i + 1
      ended == [webm EXCEPT !.jobs[k].state = "resolved",
                            !.jobs[k].chain = Append(@, [config |-> webm.jobs[k].config,
                                                          outcome |-> "end"])]
      pushed == [ended EXCEPT !.parts = Append(@, WebmPartRecord(webm, k)), !.i = k]
  IN /\ webm.pc = "encode"
     /\ webm' = IF k < Len(webm.segments) THEN StartJob(pushed, k + 1)
                ELSE WebmReturned(pushed, pushed.parts)
     /\ UNCHANGED <<img, cache, now, vid, det, call, meta, twopass>>

\* fallback revision, 'error' of the running configuration of segment i
AttemptError ==
  LET k == webm.i + 1
      next == NextConfig(webm.jobs[k].config)
      failed == [webm EXCEPT !.jobs[k].chain = Append(@, [config |-> webm.jobs[k].config,
                                                           outcome |-> "error"])]
  IN /\ webm.pc = "encode"
     /\ webm' = IF next = "none"
                THEN WebmThrown([failed EXCEPT !.jobs[k].state = "rejected"],
                                <<webm.jobs[k].config>>)
                ELSE [failed EXCEPT !.jobs[k].config = next, !.encodes = @ + 1]
     /\ UNCHANGED <<img, cache, now, vid, det, call, meta, twopass>>

\* parallel revision, 'end' of the encoder of segment k
WebmJobEnd(k) ==
  /\ webm.rev = "parallel"
  /\ k \in 1..Len(webm.jobs)
  /\ webm.jobs[k].state = "encoding"
  /\ webm' = [webm EXCEPT !.jobs[k].state = "resolved",
                          !.jobs[k].chain = Append(@, [config |-> webm.jobs[k].config,
                                                        outcome |-> "end"])]
  /\ UNCHANGED <<img, cache, now, vid, det, call, meta, twopass>>

\* parallel revision, 'error' of the encoder of segment k
WebmJobError(k) ==
  /\ webm.rev = "parallel"
  /\ k \in 1..Len(webm.jobs)
  /\ webm.jobs[k].state = "encoding"
  /\ webm' = [webm EXCEPT !.jobs[k].state = "rejected",
                          !.jobs[k].chain = Append(@, [config |-> webm.jobs[k].config,
                                                        outcome |-> "error"])]
  /\ UNCHANGED <<img, cache, now, vid, det, call, meta, twopass>>

\* parallel revision, Promise.all resolves: the results, in index order, are
\* turned into parts and sorted
WebmAllSettled ==
  /\ webm.pc = "await"
  /\ \A k \in 1..Len(webm.jobs) : webm.jobs[k].state = "resolved"
  /\ webm' = WebmReturned(webm, SortByPartNumber([k \in 1..Len(webm.jobs) |->
                                                    WebmPartRecord(webm, k)]))
  /\ UNCHANGED <<img, cache, now, vid, det, call, meta, twopass>>

\* parallel revision, Promise.all rejects
WebmRejected ==
  /\ webm.pc = "await"
  /\ \E k \in 1..Len(webm.jobs) : webm.jobs[k].state = "rejected"
  /\ webm' = WebmThrown(webm, <<"vp9">>)
  /\ UNCHANGED <<img, cache, now, vid, det, call, meta, twopass>>

WebmSizes == {4096, 4101, 8192, 8197, 8300}
WebmTargets == {4, 3}
\* 12: past every time= the stream reports; 10: the time= of its last line
WebmDurations == {12, 10}

InitWebm ==
  \E rev \in {"fallback", "parallel"}, originalBytes \in WebmSizes,
     targetSizeKB \in WebmTargets, duration \in WebmDurations :
    /\ webm = NewWebm(rev, originalBytes, targetSizeKB, duration)
    /\ img = [r \in Reqs |-> IdleImage]
    /\ cache = <<>>
    /\ now = maxAge
    /\ call = NoCall
    /\ meta = IdleMeta
    /\ twopass = IdleTwoPass
    /\ vid = IdleVideo
    /\ det = IdleDetector

NextWebm ==
  \/ WebmStart
  \/ WebmProbeError
  \/ DetectorSteps
  \/ WebmPlan
  \/ WebmDetectRejected
  \/ AttemptEnd
  \/ AttemptError
  \/ \E k \in 1..Len(webm.jobs) : WebmJobEnd(k) \/ WebmJobError(k)
  \/ WebmAllSettled
  \/ WebmRejected

SpecWebm == InitWebm /\ [][NextWebm]_vars

-----------------------------------------------------------------------------
(* Initial states and specification of compressImage *)


\* what the cache may hold for a bucket when a request arrives: nothing, a
\* fresh average or an expired one
CacheSeeds(key) ==
  {<<>>}
    \cup {<<[key |-> key, totalQuality |-> 2 * avg, count |-> 2, timestamp |-> 1]>> :
            avg \in {15, 50, 90}}
    \cup {<<[key |-> key, totalQuality |-> 65, count |-> 1, timestamp |-> 0]>>}

InitImage ==
  \E rev \in Revisions, asset \in ImageAssets, targetSizeKB \in Targets :
    /\ img = [r \in Reqs |-> IF r = 1 THEN NewImage(rev, asset, targetSizeKB) ELSE IdleImage]
    /\ cache \in (IF rev = "cached"
                  THEN CacheSeeds(RequestKey(NewImage(rev, asset, targetSizeKB)))
                  ELSE {<<>>})
    /\ now = maxAge
    /\ call = NoCall
    /\ meta = IdleMeta
    /\ twopass = IdleTwoPass
    /\ vid = IdleVideo
    /\ webm = IdleWebm
    /\ det = IdleDetector

\* the route handler calls compressImage again: the same upload and target
\* are submitted once more after the previous request has been answered
ImageArrive(r) ==
  /\ r > 1
  /\ img[r].pc = "idle"
  /\ img[r - 1].pc = "done"
  /\ img' = [img EXCEPT ![r] = NewImage(img[r - 1].rev, img[r - 1].asset,
                                        img[r - 1].targetSizeKB)]
  /\ UNCHANGED <<cache, now, vid, webm, det, call, meta, twopass>>

NextImage ==
  \E r \in Reqs : ImageArrive(r) \/ ImageStart(r) \/ ImageIterate(r) \/ ImageFinish(r)

SpecImage == InitImage /\ [][NextImage]_vars

-----------------------------------------------------------------------------
(* C2 *)

\* what get may return for the bucket of the second ceiling
CachedQualities(rev) == IF rev = "cached" THEN {<<>>, <<15>>, <<50>>, <<90>>} ELSE {<<>>}

\* the encoder's size depends on the quality alone (the gif branch of the
\* buffer revision resizes to the target instead)
SameSizeFunction(q) == ~(q.rev = "buffer" /\ q.asset.format = "gif")

MonotonicFrom(q) ==
  \A T2 \in Targets : \A c2 \in CachedQualities(q.rev) :
    (/\ T2 > q.targetSizeKB
     /\ ~AlreadyWithinTarget(ToFixed2KB(q.asset.originalBytes), T2))
      => ChosenQuality(q.rev, q.asset, T2, c2) >= q.result.quality

\* C2: for two ceilings T1 < T2 below the original size of the same asset, the
\* quality chosen for T2 is never lower than the quality chosen for T1, in the
\* buffer revision with its early-exit band and in the cached revision for any
\* cache content.
C2_SearchMonotonic ==
  \A r \in Reqs :
    (img[r].pc = "done" /\ img[r].result.action = "compressed" /\ SameSizeFunction(img[r]))
      => MonotonicFrom(img[r])

\* the same statement of the buffer revision alone
C2_BufferRevisionMonotonic ==
  \A r \in Reqs :
    (/\ img[r].pc = "done" /\ img[r].result.action = "compressed"
     /\ img[r].rev = "buffer" /\ SameSizeFunction(img[r]))
      => MonotonicFrom(img[r])

-----------------------------------------------------------------------------
(* C6 *)

\* C6: every invocation of detectQualityChanges produces a definitive result:
\* once the stream has ended, the encoder has failed or the timeout has fired
\* the promise is resolved, with an empty list after a timeout or an encoder
\* error, and it is never rejected.
C6_DefinitiveResult ==
  /\ det.promise.state # "rejected"
  /\ (det.proc \in {"ended", "errored"} \/ det.timer = "fired")
       => det.promise.state = "resolved"
  /\ (det.proc = "errored" \/ det.timer = "fired") => det.promise.value = <<>>

\* the same statement of the debounced revision alone
C6_DebouncedRevision == det.rev = "debounced" => C6_DefinitiveResult

-----------------------------------------------------------------------------
(* C7 *)

\* C7: in the list detectQualityChanges returns no two events are less than 2
\* seconds apart, the list is sorted by timestamp ascending, and a surviving
\* event has no earlier raw event within the window.
C7_DedupedAndSorted ==
  det.promise.state = "resolved" =>
    LET v == det.promise.value
        raw == det.qualityChanges
    IN /\ \A i \in 1..Len(v) : \A j \in (i + 1)..Len(v) :
            v[j].timestamp - v[i].timestamp >= dedupWindow
       /\ \A i \in 1..Len(v) : \E n \in 1..Len(raw) :
            /\ raw[n] = v[i]
            /\ \A m \in 1..(n - 1) : Abs(raw[m].timestamp - raw[n].timestamp) >= dedupWindow

\* the same statement of the debounced revision alone
C7_DebouncedRevision == det.rev = "debounced" => C7_DedupedAndSorted

-----------------------------------------------------------------------------
(* C8 *)

\* the last bitrate token before line i of the stream, 0 when there is none
BitrateBefore(stream, i) ==
  LET earlier == {j \in 1..(i - 1) : stream[j].bitrate # NoToken}
  IN IF earlier = {} THEN 0
     ELSE stream[CHOOSE j \in earlier : \A k \in earlier : k <= j].bitrate

ResolutionBefore(stream, i) ==
  LET earlier == {j \in 1..(i - 1) : stream[j].resolution # NoToken}
  IN IF earlier = {} THEN 0
     ELSE stream[CHOOSE j \in earlier : \A k \in earlier : k <= j].resolution

\* the lines of the stream on which the bitrate changes by more than the threshold
BitrateChangeLines(stream) ==
  {i \in 1..Len(stream) :
     /\ stream[i].bitrate # NoToken
     /\ BitrateBefore(stream, i) > 0
     /\ Abs(stream[i].bitrate - BitrateBefore(stream, i)) > bitrateThreshold}

\* the lines of the stream on which the resolution changes
ResolutionChangeLines(stream) ==
  {i \in 1..Len(stream) :
     /\ stream[i].resolution # NoToken
     /\ ResolutionBefore(stream, i) # 0
     /\ stream[i].resolution # ResolutionBefore(stream, i)}

\* every line of the stream carries a timestamp, and the stream holds exactly
\* one bitrate change, at t1, and exactly one resolution change, at t2 > t1 + 3
OneChangeOfEach(stream) ==
  /\ \A i \in 1..Len(stream) : stream[i].time # NoToken
  /\ Cardinality(BitrateChangeLines(stream)) = 1
  /\ Cardinality(ResolutionChangeLines(stream)) = 1
  /\ LET b == CHOOSE i \in BitrateChangeLines(stream) : TRUE
         r == CHOOSE i \in ResolutionChangeLines(stream) : TRUE
     IN /\ stream[b].time # NoToken
        /\ stream[r].time # NoToken
        /\ stream[r].time > stream[b].time + minInterval

ExpectedEvents(stream) ==
  LET b == CHOOSE i \in BitrateChangeLines(stream) : TRUE
      r == CHOOSE i \in ResolutionChangeLines(stream) : TRUE
  IN <<Event(stream[b].time, "bitrate_change", BitrateBefore(stream, b), stream[b].bitrate),
       Event(stream[r].time, "resolution_change", ResolutionBefore(stream, r),
             stream[r].resolution)>>

\* the analysis pass of a traced invocation of the debounced revision ran to
\* its end before the timeout
EndedNormally ==
  det.traced /\ det.rev = "debounced" /\ det.proc = "ended" /\ det.timer = "cleared"

\* C8: a stream with exactly one bitrate change above the threshold, at t1, and
\* exactly one resolution change, at t2 > t1 + 3 s, yields exactly the two
\* events bitrate_change at t1 and resolution_change at t2, in that order.
C8_TwoEventsAtTheirTimes ==
  (EndedNormally /\ OneChangeOfEach(det.stream))
    => det.promise.value = ExpectedEvents(det.stream)

\* a stream of this kind whose lines are all at least 3 s apart: both events
\* are reported at their times
C8_BothEventsReported ==
  /\ EndedNormally
  /\ OneChangeOfEach(det.stream)
  /\ det.promise.value = ExpectedEvents(det.stream)

InitDetect ==
  \E rev \in {"debounced", "legacy"} :
    /\ det = StartedDetector(rev, TRUE)
    /\ img = [r \in Reqs |-> IdleImage]
    /\ cache = <<>>
    /\ now = maxAge
    /\ call = NoCall
    /\ meta = IdleMeta
    /\ twopass = IdleTwoPass
    /\ vid = IdleVideo
    /\ webm = IdleWebm

NextDetect == DetectorSteps

SpecDetect == InitDetect /\ [][NextDetect]_vars

-----------------------------------------------------------------------------
(* CompressionCache called directly: get and set on a few buckets, at times  *)
(* that may coincide or lie more than maxAge apart, starting from an empty   *)
(* cache, from one an entry short of maxSize written in a single               *)
(* millisecond, and from a full one written at increasing times.             *)

StartTime == 200

\* the times of the calls: the same millisecond, the next one, the last one
\* before an entry written at StartTime expires, and the first one after
CallTimes == {StartTime, StartTime + 1, StartTime + maxAge - 1, StartTime + maxAge}

PrefilledKey(k) == <<"jpeg", 100 * k, 5>>

\* the buckets the caller uses: one the prefilled caches hold, two new ones
CacheKeys == <<PrefilledKey(1), <<"png", 100, 5>>, <<"png", 200, 5>>>>

Qualities == {60, 80}

\* n buckets, each set once with quality 65, all at the time t
Burst(n, t) ==
  [k \in 1..n |-> [key |-> PrefilledKey(k), totalQuality |-> 65, count |-> 1,
                   timestamp |-> t]]

\* n buckets, each set once with quality 65, bucket k at the time k
Aged(n) ==
  [k \in 1..n |-> [key |-> PrefilledKey(k), totalQuality |-> 65, count |-> 1,
                   timestamp |-> k]]

PrefilledCaches == {<<>>, Burst(maxSize - 1, StartTime), Aged(maxSize)}

\* the qualities set on each bucket of CacheKeys since its entry was created;
\* clean: no set found the entry expired
ObservedIn(c) ==
  [i \in 1..Len(CacheKeys) |->
     [qualities |-> IF CacheIndex(c, CacheKeys[i]) = 0 THEN <<>> ELSE <<65>>,
      clean |-> TRUE]]

ObservedAfter(before, after, op, key, quality, t, observed) ==
  [i \in 1..Len(CacheKeys) |->
     IF CacheIndex(after, CacheKeys[i]) = 0 THEN [qualities |-> <<>>, clean |-> TRUE]
     ELSE IF op = "set" /\ key = CacheKeys[i]
     THEN LET j == CacheIndex(before, key) IN
          IF j = 0 THEN [qualities |-> <<quality>>, clean |-> TRUE]
          ELSE [qualities |-> Append(observed[i].qualities, quality),
                clean |-> observed[i].clean /\ t - before[j].timestamp < maxAge]
     ELSE observed[i]]

\* the age the entry of the bucket key has at the time t, when it has one
EntryAge(c, key, t) ==
  IF CacheIndex(c, key) = 0 THEN 0 ELSE t - c[CacheIndex(c, key)].timestamp

\* compressionCache.get(...) for the bucket key
CacheGetCall(key) ==
  /\ call.calls < MaxCalls
  /\ cache' = CacheAfterGet(cache, key, now)
  /\ call' = [call EXCEPT !.op = "get", !.key = key, !.quality = 0,
                          !.returned = CacheGetValue(cache, key, now),
                          !.hadEntry = CacheIndex(cache, key) # 0,
                          !.age = EntryAge(cache, key, now),
                          !.calls = @ + 1,
                          !.observed = ObservedAfter(cache, CacheAfterGet(cache, key, now),
                                                     "get", key, 0, now, @)]
  /\ UNCHANGED <<img, now, vid, webm, det, meta, twopass>>

\* compressionCache.set(..., quality) for the bucket key
CacheSetCall(key, quality) ==
  /\ call.calls < MaxCalls
  /\ cache' = CacheSet(cache, key, quality, now)
  /\ call' = [call EXCEPT !.op = "set", !.key = key, !.quality = quality,
                          !.returned = <<>>,
                          !.hadEntry = CacheIndex(cache, key) # 0,
                          !.age = EntryAge(cache, key, now),
                          !.calls = @ + 1,
                          !.observed = ObservedAfter(cache, CacheSet(cache, key, quality, now),
                                                     "set", key, quality, now, @)]
  /\ UNCHANGED <<img, now, vid, webm, det, meta, twopass>>

\* Date.now() moves on between two calls
Tick(t) ==
  /\ t > now
  /\ now' = t
  /\ UNCHANGED <<img, cache, vid, webm, det, call, meta, twopass>>

InitCache ==
  /\ cache \in PrefilledCaches
  /\ now = StartTime
  /\ call = [NoCall EXCEPT !.observed = ObservedIn(cache)]
  /\ meta = IdleMeta
  /\ twopass = IdleTwoPass
  /\ img = [r \in Reqs |-> IdleImage]
  /\ vid = IdleVideo
  /\ webm = IdleWebm
  /\ det = IdleDetector

NextCache ==
  \/ \E i \in 1..Len(CacheKeys) : CacheGetCall(CacheKeys[i])
  \/ \E i \in 1..Len(CacheKeys), quality \in Qualities : CacheSetCall(CacheKeys[i], quality)
  \/ \E t \in CallTimes : Tick(t)

SpecCache == InitCache /\ [][NextCache]_vars

-----------------------------------------------------------------------------
(* cacheManager (unnamed/part_004) as detectWebMQualityChange uses it        *)
(* (unnamed/part_000 25-30): look the path up, and on a miss probe the file  *)
(* and store what the probe returned.  Files are rewritten between lookups.  *)

MAX_CACHE_SIZE == 100
CACHE_TTL == 300000

Paths == {"a.webm", "b.webm"}

\* what a path holds over time: rewritten with a new modification time, then
\* with a new size as well
Versions ==
  <<[size |-> 8192, mtime |-> 1, duration |-> 10],
    [size |-> 8192, mtime |-> 2, duration |-> 12],
    [size |-> 8300, mtime |-> 3, duration |-> 12]>>

\* the times of the lookups after the first
MetaTimes == {StartTime + 1, StartTime + CACHE_TTL - 1, StartTime + CACHE_TTL}

\* crypto.createHash('md5').update(filePath).digest('hex'): one digest per path
PathHash(filePath) == <<"md5", filePath>>

MetaIndex(c, hash) ==
  IF \E i \in 1..Len(c) : c[i].hash = hash
  THEN CHOOSE i \in 1..Len(c) : c[i].hash = hash
  ELSE 0

\* getWebMInfo: the probe of the file the path holds now
ProbedInfo(m, filePath) ==
  [duration |-> Versions[m.files[filePath]].duration,
   size |-> Versions[m.files[filePath]].size]

\* getCachedMetadata: the data of a live entry, <<>> for null; an entry that
\* has expired is deleted
getCachedMetadata(m, filePath, t) ==
  LET i == MetaIndex(m.metadataCache, PathHash(filePath))
      live == i # 0 /\ t - m.metadataCache[i].timestamp < CACHE_TTL
  IN [m EXCEPT !.returned = IF live THEN <<m.metadataCache[i]>> ELSE <<>>,
               !.hit = live,
               !.metadataCache = IF i # 0 /\ ~live THEN CacheDelete(@, i) ELSE @]

\* setCachedMetadata: the first key is deleted when the Map is full, then
\* Map.set stores the entry (in place when the key is there).  stored keeps the
\* version of the file the metadata was read from.
setCachedMetadata(m, filePath, metadata, t) ==
  LET kept == IF Len(m.metadataCache) >= MAX_CACHE_SIZE THEN Tail(m.metadataCache)
              ELSE m.metadataCache
      i == MetaIndex(kept, PathHash(filePath))
      entry == [hash |-> PathHash(filePath), data |-> metadata, timestamp |-> t,
                stored |-> m.files[filePath]]
  IN [m EXCEPT !.metadataCache = IF i # 0 THEN [kept EXCEPT ![i] = entry]
                                 ELSE Append(kept, entry),
               !.returned = <<entry>>]

\* let webmInfo = getCachedMetadata(inputPath); if (!webmInfo) { ... }
MetadataLookup(filePath) ==
  LET looked == getCachedMetadata(meta, filePath, now) IN
  /\ meta.calls < MaxCalls
  /\ meta' = [(IF looked.hit THEN looked
               ELSE setCachedMetadata(looked, filePath, ProbedInfo(meta, filePath), now))
              EXCEPT !.path = filePath, !.calls = @ + 1]
  /\ UNCHANGED <<img, cache, now, vid, webm, det, call, twopass>>

\* the file at a path is rewritten, after the last lookup has been answered
FileChange(filePath) ==
  /\ meta.files[filePath] < Len(Versions)
  /\ meta' = [meta EXCEPT !.files[filePath] = @ + 1,
                          !.path = "", !.hit = FALSE, !.returned = <<>>]
  /\ UNCHANGED <<img, cache, now, vid, webm, det, call, twopass>>

InitMeta ==
  /\ meta = [IdleMeta EXCEPT !.files = [f \in Paths |-> 1]]
  /\ twopass = IdleTwoPass
  /\ now = StartTime
  /\ cache = <<>>
  /\ call = NoCall
  /\ img = [r \in Reqs |-> IdleImage]
  /\ vid = IdleVideo
  /\ webm = IdleWebm
  /\ det = IdleDetector

NextMeta ==
  \/ \E filePath \in Paths : MetadataLookup(filePath) \/ FileChange(filePath)
  \/ \E t \in MetaTimes : Tick(t)

SpecMeta == InitMeta /\ [][NextMeta]_vars

-----------------------------------------------------------------------------
(* Concurrent compressVideo calls in their two passes                       *)
(* (services/videoCompression.js, second file).  A call names its log file  *)
(* passlog_<Date.now()>; pass 1 writes <name>-0.log, pass 2 reads it, and   *)
(* the call removes it after pass 2.  A log file is identified here by the  *)
(* Date.now() of its name.                                                  *)

TwoPassTimes == {StartTime + 1, StartTime + 2}

\* const passLogFile = path.join(outputDir, `passlog_${Date.now()}`), and the
\* start of pass 1
TwoPassStart(r) ==
  /\ twopass.req[r].pc = "idle"
  /\ twopass' = [twopass EXCEPT !.req[r].pc = "pass1", !.req[r].passLogFile = now]
  /\ UNCHANGED <<img, cache, now, vid, webm, det, call, meta>>

\* 'end' of pass 1: its log file is on disk, replacing any file of that name;
\* pass 2 is started
TwoPass1End(r) ==
  LET file == twopass.req[r].passLogFile IN
  /\ twopass.req[r].pc = "pass1"
  /\ twopass' = [twopass EXCEPT !.req[r].pc = "pass2",
                                !.logs = {l \in @ : l.path # file}
                                           \cup {[path |-> file, writer |-> r]}]
  /\ UNCHANGED <<img, cache, now, vid, webm, det, call, meta>>

\* pass 2 opens the log file of its name: it fails when there is none
TwoPass2Read(r) ==
  LET file == twopass.req[r].passLogFile
      found == {l \in twopass.logs : l.path = file}
  IN /\ twopass.req[r].pc = "pass2"
     /\ twopass' = IF found = {}
                   THEN [twopass EXCEPT !.req[r].pc = "failed"]
                   ELSE [twopass EXCEPT !.req[r].pc = "encoding",
                                        !.req[r].readLogOf = (CHOOSE l \in found : TRUE).writer]
     /\ UNCHANGED <<img, cache, now, vid, webm, det, call, meta>>

\* 'end' of pass 2
TwoPass2End(r) ==
  /\ twopass.req[r].pc = "encoding"
  /\ twopass' = [twopass EXCEPT !.req[r].pc = "remove"]
  /\ UNCHANGED <<img, cache, now, vid, webm, det, call, meta>>

\* 'error' of either pass: the promise rejects and compressVideo throws
TwoPassError(r) ==
  /\ twopass.req[r].pc \in {"pass1", "pass2", "encoding"}
  /\ twopass' = [twopass EXCEPT !.req[r].pc = "failed"]
  /\ UNCHANGED <<img, cache, now, vid, webm, det, call, meta>>

\* fs.remove(passLogFile + '-0.log'), and the return
RemoveLogs(r) ==
  /\ twopass.req[r].pc = "remove"
  /\ twopass' = [twopass EXCEPT !.req[r].pc = "done",
                                !.logs = {l \in @ : l.path # twopass.req[r].passLogFile}]
  /\ UNCHANGED <<img, cache, now, vid, webm, det, call, meta>>

InitTwoPass ==
  /\ twopass = IdleTwoPass
  /\ img = [r \in Reqs |-> IdleImage]
  /\ cache = <<>>
  /\ now = StartTime
  /\ call = NoCall
  /\ meta = IdleMeta
  /\ vid = IdleVideo
  /\ webm = IdleWebm
  /\ det = IdleDetector

NextTwoPass ==
  \/ \E r \in Reqs : \/ TwoPassStart(r)
                     \/ TwoPass1End(r)
                     \/ TwoPass2Read(r)
                     \/ TwoPass2End(r)
                     \/ TwoPassError(r)
                     \/ RemoveLogs(r)
  \/ \E t \in TwoPassTimes : Tick(t)

SpecTwoPass == InitTwoPass /\ [][NextTwoPass]_vars

-----------------------------------------------------------------------------
(* Concurrent requests: the route handler is entered for every upload while *)
(* earlier calls of the cache-seeded compressImage are suspended at an      *)
(* await.  The code between two awaits runs to completion, so a call is     *)
(* interleaved with the others at its awaits only: get runs with the start  *)
(* of the search, set with the return.  All the uploads are 10 KB jpegs     *)
(* with one target, and so share a bucket.                                  *)

ConcurrentAssets ==
  {a \in QualityAssets({"jpeg"}, {4}) :
     /\ a.knee1 = 26 /\ a.knee2 = 56
     /\ <<a.low, a.mid, a.high>> \in {<<3000, 5000, 6000>>, <<3000, 3000, 6000>>,
                                       <<5000, 6000, 6000>>}}

InitConcurrent ==
  \E assets \in [Reqs -> ConcurrentAssets], targetSizeKB \in {4, 5} :
    /\ img = [r \in Reqs |-> NewImage("cached", assets[r], targetSizeKB)]
    /\ cache \in {<<>>,
                  <<[key |-> RequestKey(NewImage("cached", assets[1], targetSizeKB)),
                     totalQuality |-> 65, count |-> 1, timestamp |-> 0]>>}
    /\ now = maxAge
    /\ call = NoCall
    /\ meta = IdleMeta
    /\ twopass = IdleTwoPass
    /\ vid = IdleVideo
    /\ webm = IdleWebm
    /\ det = IdleDetector

NextConcurrent ==
  \E r \in Reqs : ImageStart(r) \/ ImageIterate(r) \/ ImageFinish(r)

SpecConcurrent == InitConcurrent /\ [][NextConcurrent]_vars

-----------------------------------------------------------------------------
(* generateKey on its own: two requests are drawn and their keys computed.  *)
(* originalSize is in hundredths of a KB, targetSize in KB.                 *)

KeyFormats == {"jpeg", "png"}
KeySizes == {14900, 15100, 19900, 20100}
KeyTargets == {60, 70}

KeyRequests ==
  [format : KeyFormats, originalSize : KeySizes, targetSize : KeyTargets]

InitKey ==
  \E a \in KeyRequests, b \in KeyRequests :
    /\ call = [op |-> "generateKey", first |-> a, second |-> b, keys |-> <<>>]
    /\ img = [r \in Reqs |-> IdleImage]
    /\ cache = <<>>
    /\ now = StartTime
    /\ meta = IdleMeta
    /\ twopass = IdleTwoPass
    /\ vid = IdleVideo
    /\ webm = IdleWebm
    /\ det = IdleDetector

GenerateKeys ==
  /\ call.keys = <<>>
  /\ call' = [call EXCEPT !.keys =
                <<generateKey(call.first.format, call.first.originalSize, call.first.targetSize),
                  generateKey(call.second.format, call.second.originalSize,
                              call.second.targetSize)>>]
  /\ UNCHANGED <<img, cache, now, vid, webm, det, meta, twopass>>

SpecKey == InitKey /\ [][GenerateKeys]_vars

-----------------------------------------------------------------------------
(* The service: one request of any kind *)

Init == InitImage \/ InitVideo \/ InitWebm

Next == NextImage \/ NextVideo \/ NextWebm

Spec == Init /\ [][Next]_vars

-----------------------------------------------------------------------------
(* C1 *)

\* C1: a call of compressImage, compressVideo, splitVideo or
\* detectWebMQualityChange whose target is at least the original file size
\* never starts an encoder or a search iteration, and when it returns its
\* result is the copy: action 'copied', reported size = original size.
C1_CopyThrough ==
  /\ \A r \in Reqs :
       (img[r].pc # "idle" /\ 1024 * img[r].targetSizeKB >= img[r].asset.originalBytes) =>
         /\ img[r].encodes = 0
         /\ img[r].iterations = 0
         /\ img[r].pc \in {"start", "done"}
         /\ img[r].pc = "done" =>
              /\ img[r].result.action = "copied"
              /\ img[r].result.originalSize = ToFixed2KB(img[r].asset.originalBytes)
              /\ img[r].result.compressedSize = img[r].result.originalSize
              /\ img[r].result.output =
                   [kind |-> "copy", quality |-> 0, bytes |-> img[r].asset.originalBytes]
  /\ (vid.pc # "idle" /\ 1024 * vid.targetSizeKB >= vid.originalBytes) =>
       /\ vid.encodes = 0
       /\ vid.pc \in {"start", "done", "failed"}
       /\ vid.pc = "done" =>
            /\ vid.result.action = "copied"
            /\ vid.result.originalSize = ToFixed2KB(vid.originalBytes)
            /\ vid.result.compressedSize = vid.result.originalSize
            /\ vid.op = "splitVideo" =>
                 /\ Len(vid.result.parts) = 1
                 /\ vid.result.parts[1].size = vid.result.originalSize
  /\ (webm.pc # "idle" /\ 1024 * webm.targetSizeKB >= webm.originalBytes) =>
       /\ webm.encodes = 0
       /\ det.pc = "idle"
       /\ webm.pc \in {"start", "done", "failed"}
       /\ webm.pc = "done" =>
            /\ webm.result.action = "copied"
            /\ webm.result.originalSize = ToFixed2KB(webm.originalBytes)
            /\ Len(webm.result.parts) = 1
            /\ webm.result.parts[1].size = webm.result.originalSize

\* a request whose target equals the original size has been answered with the copy
C1_CopiedAtEquality ==
  \E r \in Reqs :
    /\ img[r].pc = "done"
    /\ img[r].asset.originalBytes = 1024 * img[r].targetSizeKB
    /\ img[r].result.action = "copied"

-----------------------------------------------------------------------------
(* C3 *)

\* the segment encode jobs of splitVideo whose encoder is running
ActiveJobs == {k \in 1..Len(vid.jobs) : vid.jobs[k].state = "encoding"}

\* C3: in the batched splitVideo, at no instant are more than maxConcurrent
\* (= 2) segment encode jobs active, for every number of parts and every
\* completion order.
C3_AtMostTwoActive ==
  /\ maxConcurrent = 2
  /\ Cardinality(ActiveJobs) <= maxConcurrent

\* two jobs of the second batch of a five-part split are running
C3_TwoOfFiveActive ==
  /\ vid.totalParts = 5
  /\ vid.i = 2
  /\ Cardinality(ActiveJobs) = 2

-----------------------------------------------------------------------------
(* C4 *)

\* C4: the parts array returned by splitVideo and by detectWebMQualityChange
\* is ordered by partNumber 1..N, and the element with partNumber i carries
\* the startTime and duration of the planned segment i, whatever the order
\* in which the encode jobs completed.
C4_PartsFollowThePlan ==
  /\ (vid.pc = "done" /\ vid.result.action = "split") =>
       \A n \in 1..Len(vid.result.parts) :
         LET part == vid.result.parts[n] IN
           /\ part.partNumber = n
           /\ part.scale = vid.totalParts
           /\ part.startTime = (n - 1) * vid.durationMs
           /\ part.duration = vid.durationMs
  /\ (webm.pc = "done" /\ webm.result.action # "copied") =>
       /\ Len(webm.result.parts) = Len(webm.segments)
       /\ \A n \in 1..Len(webm.result.parts) :
            LET part == webm.result.parts[n] IN
              /\ part.partNumber = n
              /\ part.startTime = webm.segments[n].startTime
              /\ part.duration = webm.segments[n].duration

\* a five-part split has returned although in every batch the later job
\* completed first
C4_ReturnedAfterReversedCompletion ==
  /\ vid.pc = "done"
  /\ vid.result.action = "split"
  /\ vid.finished = <<2, 1, 4, 3, 5>>

-----------------------------------------------------------------------------
(* C5 *)

FallbackChain == <<"vp9", "vp8", "default">>

\* C5: a WebM segment encode job runs its configurations in the order VP9,
\* VP8, default; it succeeds as soon as one of them succeeds (nothing is
\* attempted after a success), and it fails if and only if every
\* configuration of the chain has failed.
C5_FallbackChain ==
  webm.rev = "fallback" =>
    \A k \in 1..Len(webm.jobs) :
      LET job == webm.jobs[k]
          n == Len(job.chain)
      IN /\ n <= Len(FallbackChain)
         /\ \A m \in 1..n : job.chain[m].config = FallbackChain[m]
         /\ \A m \in 1..(n - 1) : job.chain[m].outcome = "error"
         /\ job.state = "resolved" <=> (n >= 1 /\ job.chain[n].outcome = "end")
         /\ job.state = "rejected" <=>
              (n = Len(FallbackChain) /\ \A m \in 1..n : job.chain[m].outcome = "error")
         /\ job.state = "encoding" =>
              (n < Len(FallbackChain) /\ job.config = FallbackChain[n + 1])

\* a segment was encoded by the last configuration after VP9 and VP8 failed
C5_DefaultSucceededAfterTwoFailures ==
  /\ webm.rev = "fallback"
  /\ \E k \in 1..Len(webm.jobs) :
       /\ webm.jobs[k].state = "resolved"
       /\ Len(webm.jobs[k].chain) = 3
       /\ webm.jobs[k].chain[3] = [config |-> "default", outcome |-> "end"]

-----------------------------------------------------------------------------
(* C9 *)

\* n = ceil(originalSize / targetSizeKB), originalSize in hundredths of a KB
IsCeiling(n, originalSize, targetSizeKB) ==
  /\ n * 100 * targetSizeKB >= originalSize
  /\ (n - 1) * 100 * targetSizeKB < originalSize

-----------------------------------------------------------------------------
(* C10 *)

RECURSIVE SumDurations(_)
SumDurations(parts) ==
  IF parts = <<>> THEN 0
  ELSE SumDurations(SubSeq(parts, 1, Len(parts) - 1)) + parts[Len(parts)].duration

\* the parts, times over the denominator scale, tile [0, duration)
Tiles(parts, duration, scale) ==
  /\ parts[1].startTime = 0
  /\ \A n \in 1..Len(parts) : parts[n].duration > 0 /\ parts[n].scale = scale
  /\ \A n \in 1..(Len(parts) - 1) :
       parts[n + 1].startTime = parts[n].startTime + parts[n].duration
  /\ parts[Len(parts)].startTime + parts[Len(parts)].duration = duration * scale
  /\ SumDurations(parts) = duration * scale

\* C10: the segments of a uniform plan are totally ordered, contiguous and
\* non-overlapping and cover [0, duration): the first starts at 0, each starts
\* where the previous one ends, the last ends at duration, and the reported
\* durations sum to the asset duration.
C10_UniformPlanTiles ==
  /\ (vid.pc = "done" /\ vid.result.action = "split") =>
       Tiles(vid.result.parts, vid.durationMs, Len(vid.result.parts))
  /\ (webm.pc = "done" /\ webm.result.action = "split_default") =>
       /\ Tiles(webm.result.parts, webm.duration, Len(webm.result.parts))
       /\ \A n \in 1..Len(webm.result.parts) :
            webm.result.parts[n].endTime =
              webm.result.parts[n].startTime + webm.result.parts[n].duration

\* a split into three parts of a duration that three does not divide has returned
C10_ThreeUnevenParts ==
  /\ vid.pc = "done"
  /\ vid.result.action = "split"
  /\ Len(vid.result.parts) = 3
  /\ vid.durationMs % 3 # 0

-----------------------------------------------------------------------------
(* C11: for one bucket, after the set calls with the qualities q1..qn, none  *)
(* of them made on an expired entry and the entry not evicted in between,    *)
(* the next get, made before the entry expires, returns the average of       *)
(* q1..qn rounded to the nearest integer, halves upwards.                    *)

RECURSIVE SumOf(_)
SumOf(qs) == IF qs = <<>> THEN 0 ELSE qs[1] + SumOf(Tail(qs))

\* r is sum / n rounded to the nearest integer, halves upwards
IsRoundedAverage(r, sum, n) == 2 * r * n - n <= 2 * sum /\ 2 * sum < 2 * r * n + n

KeyIndex(key) == CHOOSE i \in 1..Len(CacheKeys) : CacheKeys[i] = key

\* the get just made found an entry that had not expired
LiveGet == call.op = "get" /\ call.hadEntry /\ call.age < maxAge

C11_GetReturnsRoundedAverage ==
  (LiveGet /\ call.observed[KeyIndex(call.key)].clean) =>
    LET qs == call.observed[KeyIndex(call.key)].qualities IN
    /\ Len(call.returned) = 1
    /\ IsRoundedAverage(call.returned[1], SumOf(qs), Len(qs))

\* 60 then 80 set on a new bucket, and the get returned 70
C11_SixtyThenEighty ==
  /\ LiveGet
  /\ call.observed[KeyIndex(call.key)].qualities = <<60, 80>>
  /\ call.returned = <<70>>

-----------------------------------------------------------------------------
(* C12: get returns null for a bucket that has no entry and for one whose    *)
(* entry was last written maxAge or longer ago; in the second case that get  *)
(* removes the entry; no get removes an entry younger than maxAge.           *)

\* the step is a get on the cache
GetStep == call'.op = "get" /\ call'.calls = call.calls + 1

GetOutcome ==
  LET i == CacheIndex(cache, call'.key) IN
  /\ i = 0 => call'.returned = <<>> /\ cache' = cache
  /\ (i # 0 /\ now - cache[i].timestamp >= maxAge) =>
       call'.returned = <<>> /\ CacheIndex(cache', call'.key) = 0
  /\ \A j \in 1..Len(cache) :
       now - cache[j].timestamp < maxAge =>
         \E k \in 1..Len(cache') : cache'[k] = cache[j]

C12_GetNullOnMissAndExpiry == [][GetStep => GetOutcome]_vars

\* a get exactly maxAge after the last write returned null and removed the entry
C12_ExpiredAtMaxAge ==
  /\ call.op = "get" /\ call.hadEntry /\ call.age = maxAge
  /\ call.returned = <<>>
  /\ CacheIndex(cache, call.key) = 0

-----------------------------------------------------------------------------
(* C13: in the cached revision compressImage returns the same final quality  *)
(* and the same output for an asset and a target whether the cache had an    *)
(* entry for the request's bucket or not.                                    *)

ColdResult(q) == RunSearch(SearchStart(NewImage(q.rev, q.asset, q.targetSizeKB), <<>>)).result

C13_ColdAndWarmAgree ==
  \A r \in Reqs :
    (img[r].pc = "done" /\ img[r].rev = "cached" /\ img[r].result.action = "compressed")
      => /\ img[r].result.quality = ColdResult(img[r]).quality
         /\ img[r].result.output = ColdResult(img[r]).output

-----------------------------------------------------------------------------
(* C14: in every revision of compressImage, when no candidate tested by the  *)
(* search was within the target, the call still returns a result: the        *)
(* encoding at the floor quality 10, reported with quality 10 and with the   *)
(* measured size of that encoding.                                           *)

\* the request was answered by a search in which no tested candidate fitted
NothingFitted(q) ==
  q.pc = "done" /\ q.result.action = "compressed" /\ q.fitted = <<>>

C14_FloorQualityWhenNothingFits ==
  \A r \in Reqs :
    NothingFitted(img[r]) =>
      /\ img[r].result.quality = 10
      /\ img[r].result.output =
           [kind |-> "encoded", quality |-> 10, bytes |-> EncodedBytes(img[r].asset, 10)]
      /\ img[r].result.compressedSize = ToFixed2KB(EncodedBytes(img[r].asset, 10))

-----------------------------------------------------------------------------
(* C15: whenever at least one candidate tested by the search was within the  *)
(* target, the persisted output is the encoding of the most recent such      *)
(* candidate, at the reported quality, and its size is within the target: an *)
(* attempt over the target is never persisted.                               *)

C15_PersistsLatestFittingCandidate ==
  \A r \in Reqs :
    (img[r].pc = "done" /\ img[r].result.action = "compressed" /\ img[r].fitted # <<>>)
      => /\ img[r].result.quality = img[r].fitted[1].quality
         /\ img[r].result.output =
              [kind |-> "encoded", quality |-> img[r].fitted[1].quality,
               bytes |-> img[r].fitted[1].bytes]
         /\ img[r].result.compressedSize <= 100 * img[r].targetSizeKB

-----------------------------------------------------------------------------
(* C16: every segment detectWebMQualityChange plans, from event boundaries   *)
(* or uniformly, has a strictly positive duration; an event whose timestamp  *)
(* is at or past the asset duration leaves no empty or negative tail.        *)

C16_SegmentsHavePositiveDuration ==
  \A k \in 1..Len(webm.segments) : webm.segments[k].duration > 0

-----------------------------------------------------------------------------
(* C17: in boundary mode the split points are 0, the event timestamps and    *)
(* the duration, in ascending order without duplicates; each pair of         *)
(* consecutive points delimits one segment, and a segment's qualityChange is *)
(* the event whose timestamp is the segment's start, null when there is none.*)

\* the plan was made from event boundaries
BoundaryMode == webm.segments # <<>> /\ (webm.rev = "parallel" \/ webm.qualityChanges # <<>>)

SplitPointSet ==
  {0, webm.duration} \cup {webm.qualityChanges[k].timestamp : k \in 1..Len(webm.qualityChanges)}

\* the position of p among the split points in ascending order
Rank(p) == Cardinality({x \in SplitPointSet : x < p}) + 1

EventsAt(t) ==
  {webm.qualityChanges[k] : k \in {j \in 1..Len(webm.qualityChanges) :
                                      webm.qualityChanges[j].timestamp = t}}

C17_SegmentsBetweenSortedSplitPoints ==
  BoundaryMode =>
    /\ Len(webm.segments) = Cardinality(SplitPointSet) - 1
    /\ \A k \in 1..Len(webm.segments) :
         LET seg == webm.segments[k] IN
         /\ seg.startTime \in SplitPointSet /\ Rank(seg.startTime) = k
         /\ seg.endTime \in SplitPointSet /\ Rank(seg.endTime) = k + 1
         /\ seg.duration = seg.endTime - seg.startTime
         /\ IF EventsAt(seg.startTime) = {} THEN seg.qualityChange = <<>>
            ELSE Len(seg.qualityChange) = 1 /\ seg.qualityChange[1] \in EventsAt(seg.startTime)

-----------------------------------------------------------------------------
(* C18: when detectQualityChanges yields no events, detectWebMQualityChange  *)
(* plans the uniform segmentation with ceil(originalSize / targetSize)       *)
(* parts, not a single segment over the whole asset.                         *)

C18_NoEventsPlansUniform ==
  (webm.segments # <<>> /\ webm.qualityChanges = <<>>)
    => /\ IsCeiling(Len(webm.segments), ToFixed2KB(webm.originalBytes), webm.targetSizeKB)
       /\ Len(webm.segments) > 1

-----------------------------------------------------------------------------
(* C19: after any sequence of get and set calls at any times, several in the *)
(* same millisecond included, the cache never holds more than maxSize        *)
(* entries; a set of a new bucket into a full cache evicts an entry whose    *)
(* last write is the oldest.                                                 *)

\* the step is a set of a bucket without an entry into a cache of maxSize entries
SetIntoFullCache ==
  /\ call'.op = "set" /\ call'.calls = call.calls + 1
  /\ CacheIndex(cache, call'.key) = 0
  /\ Len(cache) >= maxSize

\* an entry with the oldest timestamp is gone after the step
OldestEvicted ==
  \E i \in 1..Len(cache) :
    /\ \A j \in 1..Len(cache) : cache[i].timestamp <= cache[j].timestamp
    /\ CacheIndex(cache', cache[i].key) = 0

C19_NeverMoreThanMaxSize ==
  [][Len(cache') <= maxSize /\ (SetIntoFullCache => OldestEvicted)]_vars

-----------------------------------------------------------------------------
(* C20: in detectWebMQualityChange the number of segment encode jobs active  *)
(* at the same time never exceeds a fixed bound, the cap maxConcurrent of    *)
(* the batched splitVideo, however many segments were planned.               *)

WebmActiveJobs == {k \in 1..Len(webm.jobs) : webm.jobs[k].state = "encoding"}

C20_WebmJobsWithinCap == Cardinality(WebmActiveJobs) <= maxConcurrent

-----------------------------------------------------------------------------
(* C21: the temporary files of an operation are removed before it returns or *)
(* throws: when compressVideo has returned or thrown, the log files of its   *)
(* two passes are no longer on disk.                                         *)

C21_NoPassLogLeftBehind ==
  (vid.op = "compressVideo" /\ vid.pc \in {"done", "failed"}) => ~vid.passLog

-----------------------------------------------------------------------------
(* C22: when every configuration of a segment's fallback chain has failed,   *)
(* the error thrown by detectWebMQualityChange names the encode stage and    *)
(* every configuration that was attempted (VP9, VP8, default).               *)

\* the fallback chain of segment k has failed in every configuration
ChainExhausted(k) ==
  /\ webm.rev = "fallback" /\ webm.pc = "failed"
  /\ webm.jobs[k].state = "rejected"

C22_ErrorNamesStageAndAttempts ==
  \A k \in 1..Len(webm.jobs) :
    ChainExhausted(k) =>
      /\ Len(webm.thrown) = 1
      /\ webm.thrown[1].stage = <<"encode">>
      /\ webm.thrown[1].configs = [n \in 1..Len(webm.jobs[k].chain) |->
                                     webm.jobs[k].chain[n].config]

-----------------------------------------------------------------------------
(* C23: the metadata cache is keyed by content fingerprint: a lookup returns *)
(* a stored snapshot only when the file at the path has the byte size and    *)
(* the modification time it had when the snapshot was stored; after a change *)
(* of either, the lookup is a miss.                                          *)

C23_HitOnlyForUnchangedFile ==
  meta.hit =>
    /\ Versions[meta.returned[1].stored].size = Versions[meta.files[meta.path]].size
    /\ Versions[meta.returned[1].stored].mtime = Versions[meta.files[meta.path]].mtime

-----------------------------------------------------------------------------
(* C24: in the batched splitVideo no job of a batch is started before every  *)
(* job of the batch before it has settled, by resolving or by rejecting.     *)

\* the batch of the job at position k of vid.jobs (part index k - 1)
BatchNumber(k) == (k - 1) \div maxConcurrent

C24_BatchesDoNotOverlap ==
  \A j, k \in 1..Len(vid.jobs) :
    (vid.jobs[k].state # "pending" /\ BatchNumber(j) < BatchNumber(k))
      => vid.jobs[j].state \in {"resolved", "rejected"}

\* five parts: the third job is encoding after the first two have resolved,
\* the second before the first
C24_SecondBatchAfterFirst ==
  /\ Len(vid.jobs) = 5
  /\ vid.jobs[3].state = "encoding"
  /\ vid.finished = <<2, 1>>

-----------------------------------------------------------------------------
(* C25: at every step of the compressImage search loop at which a best       *)
(* candidate has been recorded and the loop has not stopped,                 *)
(* minQuality <= bestQuality <= maxQuality.                                  *)

\* the loop of request r goes on and a candidate has met the target
SearchingWithBest(r) ==
  img[r].pc = "search" /\ LoopCondition(img[r]) /\ img[r].fitted # <<>>

C25_BestWithinWindow ==
  \A r \in Reqs :
    SearchingWithBest(r) =>
      img[r].minQuality <= img[r].bestQuality /\ img[r].bestQuality <= img[r].maxQuality

\* C25, as the code has it: the recorded best is the quality just below the
\* window, bestQuality = minQuality - 1, and so below maxQuality as well.
C25_BestJustBelowWindow ==
  \A r \in Reqs :
    SearchingWithBest(r) =>
      /\ img[r].bestQuality = img[r].minQuality - 1
      /\ img[r].bestQuality = img[r].fitted[1].quality
      /\ img[r].bestQuality < img[r].maxQuality

\* the buffer revision has recorded quality 20 and goes on with [21, 31]
C25_BestTwentyWindowFrom21 ==
  /\ SearchingWithBest(1)
  /\ img[1].rev = "buffer"
  /\ img[1].bestQuality = 20 /\ img[1].minQuality = 21 /\ img[1].maxQuality = 31

-----------------------------------------------------------------------------
(* C26: the per-line debounce of the detector is measured from the last      *)
(* emitted event: a line with a timestamp is rejected if and only if its     *)
(* timestamp is less than minInterval after the timestamp of the most recent *)
(* event (0 when there is none); an accepted line that emits no event does   *)
(* not postpone the acceptance of later lines.                               *)

\* the timestamp of the most recently emitted event, 0 initially
LastEventTimestamp(d) ==
  IF d.qualityChanges = <<>> THEN 0 ELSE d.qualityChanges[Len(d.qualityChanges)].timestamp

\* the handler with the debounce of the statement
DebouncedFromLastEvent(d, line) ==
  IF line.time = NoToken THEN d
  ELSE IF line.time - LastEventTimestamp(d) < minInterval THEN d
  ELSE OnResolution(OnBitrate(d, line, bitrateThreshold), line)

RECURSIVE AfterLines(_, _)
AfterLines(d, lines) ==
  IF lines = <<>> THEN d
  ELSE AfterLines(DebouncedFromLastEvent(d, Head(lines)), Tail(lines))

C26_DebounceFromLastEvent ==
  (det.traced /\ det.rev = "debounced") =>
    LET claimed == AfterLines(StartedDetector("debounced", TRUE), det.stream) IN
    /\ det.qualityChanges = claimed.qualityChanges
    /\ det.previousBitrate = claimed.previousBitrate
    /\ det.previousResolution = claimed.previousResolution

-----------------------------------------------------------------------------
(* C27: for a line the debounced detector accepts, a bitrate_change event is *)
(* emitted if and only if the line has a bitrate token, previousBitrate > 0  *)
(* and the bitrate differs from previousBitrate by more than 150 kbps (a     *)
(* difference of exactly 150 emits nothing); previousBitrate becomes the     *)
(* line's bitrate whether or not an event was emitted.                       *)

\* the step is the handling of a line the debounced detector accepts
AcceptedLineStep ==
  /\ det.traced /\ det.rev = "debounced"
  /\ det'.lines = det.lines + 1
  /\ det'.stream[Len(det'.stream)].time # NoToken
  /\ det'.stream[Len(det'.stream)].time - det.lastTimestamp >= 3

\* the bitrate_change events the step has appended
EmittedBitrateChanges ==
  {det'.qualityChanges[n] : n \in {m \in (Len(det.qualityChanges) + 1)..Len(det'.qualityChanges) :
                                     det'.qualityChanges[m].type = "bitrate_change"}}

BitrateRule ==
  LET line == det'.stream[Len(det'.stream)]
      due == /\ line.bitrate # NoToken
             /\ det.previousBitrate > 0
             /\ \/ line.bitrate - det.previousBitrate > 150
                \/ det.previousBitrate - line.bitrate > 150
  IN /\ EmittedBitrateChanges =
          (IF due THEN {[timestamp |-> line.time, type |-> "bitrate_change",
                         from |-> det.previousBitrate, to |-> line.bitrate]}
           ELSE {})
     /\ det'.previousBitrate = (IF line.bitrate # NoToken THEN line.bitrate
                                ELSE det.previousBitrate)

-----------------------------------------------------------------------------
(* C28: when the candidate tested in an iteration of compressImage (buffer   *)
(* revision) has a measured size between 95% and 100% of the target, both    *)
(* ends included, the search stops in that iteration and the call returns    *)
(* exactly that candidate, its quality and its buffer, and the encoder is    *)
(* not invoked again.                                                        *)

\* the candidate an iteration of request r tests
TestedCandidate(r) ==
  LET quality == (img[r].minQuality + img[r].maxQuality) \div 2
  IN [quality |-> quality, bytes |-> CandidateBytes(img[r], quality)]

\* hundredths of a KB against a target in KB: 0.95 <= ratio <= 1.0
InBand(bytes, targetSizeKB) ==
  /\ 100 * ToFixed2KB(bytes) >= 95 * 100 * targetSizeKB
  /\ ToFixed2KB(bytes) <= 100 * targetSizeKB

BandStopsSearch(r) ==
  (/\ img[r].rev = "buffer" /\ img[r].pc = "search"
   /\ img'[r].iterations = img[r].iterations + 1
   /\ InBand(TestedCandidate(r).bytes, img[r].targetSizeKB))
    => /\ img'[r].stopped
       /\ img'[r].bestQuality = TestedCandidate(r).quality
       /\ img'[r].bestBuffer = <<TestedCandidate(r)>>

StoppedReturnsCandidate(r) ==
  (img[r].rev = "buffer" /\ img[r].stopped /\ img'[r] # img[r])
    => /\ img'[r].pc = "done"
       /\ img'[r].encodes = img[r].encodes
       /\ img'[r].iterations = img[r].iterations
       /\ img'[r].result.quality = img[r].bestBuffer[1].quality
       /\ img'[r].result.output =
            [kind |-> "encoded", quality |-> img[r].bestBuffer[1].quality,
             bytes |-> img[r].bestBuffer[1].bytes]

C28_BandCandidateIsReturned ==
  [][\A r \in Reqs : BandStopsSearch(r) /\ StoppedReturnsCandidate(r)]_vars

\* a gif resized to exactly the target (ratio 1.0) in the first iteration:
\* quality 55 is returned after one encoding
C28_ReturnedAtExactlyTarget ==
  \E r \in Reqs :
    /\ img[r].rev = "buffer" /\ img[r].pc = "done" /\ img[r].stopped
    /\ img[r].asset.format = "gif" /\ img[r].asset.gifFactor = 4
    /\ img[r].iterations = 1 /\ img[r].encodes = 1
    /\ img[r].result.quality = 55
    /\ ToFixed2KB(img[r].result.output.bytes) = 100 * img[r].targetSizeKB

-----------------------------------------------------------------------------
(* C29: assuming the encoder's output size is non-decreasing in quality, the *)
(* quality returned by compressImage (buffer revision) is either a candidate *)
(* that hit the early-exit band, or the maximum quality in [10, 100] whose   *)
(* encoded size is <= target.  As stated this fails when no quality meets    *)
(* the target: the floor quality 10 is returned then.  With that case added  *)
(* the statement holds.                                                      *)

\* the sizes the search loop measures do not decrease with the quality
NonDecreasingSize(q) ==
  \A x \in 10..99 : CandidateBytes(q, x) <= CandidateBytes(q, x + 1)

\* the qualities of the domain whose measured size is within the target
FittingQualities(q) ==
  {x \in 10..100 : ToFixed2KB(CandidateBytes(q, x)) <= 100 * q.targetSizeKB}

IsMaximumFitting(q, quality) ==
  /\ quality \in FittingQualities(q)
  /\ \A x \in FittingQualities(q) : x <= quality

ReturnedFromBand(q) ==
  /\ q.stopped
  /\ InBand(q.result.output.bytes, q.targetSizeKB)
  /\ q.result.output.bytes = CandidateBytes(q, q.result.quality)

\* a call of the buffer revision on a monotone encoder that has returned
\* from the search
SearchedMonotone(r) ==
  /\ img[r].rev = "buffer" /\ img[r].pc = "done"
  /\ img[r].result.action = "compressed"
  /\ NonDecreasingSize(img[r])

\* the statement as written
C29_BandOrMaximumFitting ==
  \A r \in Reqs :
    SearchedMonotone(r) =>
      \/ ReturnedFromBand(img[r])
      \/ IsMaximumFitting(img[r], img[r].result.quality)

\* with the unreachable ceiling added
C29_BandMaximumOrFloor ==
  \A r \in Reqs :
    SearchedMonotone(r) =>
      \/ ReturnedFromBand(img[r])
      \/ IsMaximumFitting(img[r], img[r].result.quality)
      \/ FittingQualities(img[r]) = {} /\ img[r].result.quality = 10

\* 3000 bytes below quality 26 and 6000 bytes from there on, target 4 KB:
\* no candidate in the band, quality 25 is returned
C29_ReturnsTwentyFive ==
  \E r \in Reqs :
    /\ SearchedMonotone(r)
    /\ ~img[r].stopped
    /\ img[r].asset.format = "jpeg" /\ img[r].targetSizeKB = 4
    /\ img[r].asset.knee1 = 26 /\ img[r].asset.low = 3000 /\ img[r].asset.mid = 6000
    /\ img[r].result.quality = 25
    /\ FittingQualities(img[r]) = 10..25

-----------------------------------------------------------------------------
(* C30: within one fallback chain there is no backtracking: the              *)
(* configurations are attempted strictly in the order VP9, VP8, default,     *)
(* each at most once and never two at a time, no configuration is attempted  *)
(* after one has succeeded, and the promise of the job is settled exactly    *)
(* once.                                                                     *)

ConfigRank(config) ==
  CASE config = "vp9" -> 1 [] config = "vp8" -> 2 [] config = "default" -> 3 [] OTHER -> 0

Settled(job) == job.state \in {"resolved", "rejected"}

\* the attempts a job has started: the finished ones and the running one
AttemptsOf(job) == Len(job.chain) + (IF job.state = "encoding" THEN 1 ELSE 0)

RECURSIVE AttemptsUpTo(_, _)
AttemptsUpTo(jobs, n) ==
  IF n = 0 THEN 0 ELSE AttemptsUpTo(jobs, n - 1) + AttemptsOf(jobs[n])

\* one step of job k
ChainStep(k) ==
  LET job == webm.jobs[k]
      after == webm'.jobs[k]
  IN /\ Settled(job) => after = job
     /\ job.state = "encoding" =>
          \/ after = job
          \/ /\ after.chain = Append(job.chain, [config |-> job.config, outcome |-> "end"])
             /\ after.state = "resolved" /\ after.config = job.config
          \/ /\ after.chain = Append(job.chain, [config |-> job.config, outcome |-> "error"])
             /\ \/ after.state = "rejected" /\ after.config = job.config
                \/ /\ after.state = "encoding"
                   /\ ConfigRank(after.config) = ConfigRank(job.config) + 1
     /\ job.state = "pending" =>
          \/ after = job
          \/ after.state = "encoding" /\ after.config = "vp9" /\ after.chain = <<>>

C30_NoBacktracking ==
  [][(webm.rev = "fallback" /\ webm.jobs # <<>> /\ Len(webm'.jobs) = Len(webm.jobs)) =>
       /\ \A k \in 1..Len(webm.jobs) : ChainStep(k)
       /\ Cardinality({k \in 1..Len(webm'.jobs) : webm'.jobs[k].state = "encoding"}) <= 1
       /\ webm'.encodes = AttemptsUpTo(webm'.jobs, Len(webm'.jobs))]_vars

\* the first segment was encoded by VP8 after VP9 failed, and VP9 is running
\* for the second: three encoders were started in all
C30_SecondChainStartsAfresh ==
  /\ webm.rev = "fallback"
  /\ Len(webm.jobs) >= 2
  /\ webm.jobs[1].state = "resolved"
  /\ webm.jobs[1].chain = <<[config |-> "vp9", outcome |-> "error"],
                            [config |-> "vp8", outcome |-> "end"]>>
  /\ webm.jobs[2] = [state |-> "encoding", config |-> "vp9", chain |-> <<>>]
  /\ webm.encodes = 3

-----------------------------------------------------------------------------
(* C31: the cache receives a new observation only from a search in which     *)
(* some candidate met the target: when the cache-seeded compressImage falls  *)
(* back to the floor quality because no candidate fitted, no entry is        *)
(* created or updated for the bucket.                                        *)

\* request r returns from a search in which nothing fitted
FloorFallbackStep(r) ==
  /\ img[r].rev = "cached" /\ img[r].pc = "search"
  /\ img[r].bestBuffer = <<>>
  /\ img'[r].pc = "done"

C31_NoObservationFromFloorFallback ==
  [][\A r \in Reqs : FloorFallbackStep(r) => cache' = cache]_vars

-----------------------------------------------------------------------------
(* C32: generateKey buckets the original size to the nearest 100 KB and the  *)
(* target/original ratio to the nearest 0.1: two requests share a bucket if  *)
(* and only if they have the same format, the same nearest-100-KB size and   *)
(* the same nearest-0.1 ratio (199 KB and 201 KB share a size bucket, 149 KB *)
(* and 151 KB do not).                                                       *)

\* hundredths of a KB to the nearest 100 KB
Nearest100KB(originalSize) == ((originalSize + 5000) \div 10000) * 100

\* target/original in tenths, to the nearest tenth
NearestTenth(targetSize, originalSize) ==
  (2 * 1000 * targetSize + originalSize) \div (2 * originalSize)

SameNearestBucket(a, b) ==
  /\ a.format = b.format
  /\ Nearest100KB(a.originalSize) = Nearest100KB(b.originalSize)
  /\ NearestTenth(a.targetSize, a.originalSize) = NearestTenth(b.targetSize, b.originalSize)

C32_KeyBucketsToNearest ==
  (call.op = "generateKey" /\ call.keys # <<>>) =>
    (call.keys[1] = call.keys[2] <=> SameNearestBucket(call.first, call.second))

-----------------------------------------------------------------------------
(* C33: whenever the estimated video bitrate is not raised by the floor      *)
(* clamp, the planned total (videoBitrate + audioBitrate) * duration / 8 is  *)
(* at most 0.92 * target size; the returned bitrate is always >= 100 kbps,   *)
(* and equals floor((target * 8 * 0.92 - audioBitrate * duration) /          *)
(* duration) whenever that value is >= 100.  duration is that of the file    *)
(* for compressVideo and that of one segment for splitVideo.                 *)

\* (bitrate + 128) * seconds / 8 <= 0.92 * targetSizeKB, the seconds being
\* durationMs / (1000 * parts); both sides times 8000 * parts
WithinMargin(v, bitrate) ==
  LET parts == IF v.op = "splitVideo" THEN v.totalParts ELSE 1
  IN (bitrate + 128) * v.durationMs <= 92 * v.targetSizeKB * 8 * 10 * parts

BitrateEstimated(v) == v.pc \in {"pass1", "pass2", "await"} \/ (v.pc = "done" /\ v.encodes > 0)

C33_BitrateWithinMarginOrFloor ==
  BitrateEstimated(vid) =>
    /\ vid.targetBitrate >= 100
    /\ WithinMargin(vid, 100) =>
         /\ WithinMargin(vid, vid.targetBitrate)
         /\ ~WithinMargin(vid, vid.targetBitrate + 1)
    /\ ~WithinMargin(vid, 100) => vid.targetBitrate = 100

\* 1 MB in 7 s split for 500 KB: three segments of 7/3 s at
\* floor(1449.14) = 1449 kbps
C33_SegmentsAt1449 ==
  /\ vid.op = "splitVideo" /\ vid.pc = "await"
  /\ vid.targetSizeKB = 500 /\ vid.durationMs = 7000 /\ vid.totalParts = 3
  /\ vid.targetBitrate = 1449

-----------------------------------------------------------------------------
(* C34: for any interleaving of concurrent compressImage requests on one     *)
(* bucket (each doing get, then awaiting its encodings, then set), no update *)
(* is lost or corrupted: the count of the bucket is the number of set calls  *)
(* made and its totalQuality the sum of the qualities set; in particular     *)
(* once all requests have completed.                                         *)

\* the requests that have made their set call
Returned == {r \in Reqs : img[r].pc = "done" /\ img[r].result.action = "compressed"}

RECURSIVE QualitySum(_)
QualitySum(rs) ==
  IF rs = {} THEN 0
  ELSE LET r == CHOOSE x \in rs : TRUE IN img[r].result.quality + QualitySum(rs \ {r})

C34_NoLostUpdate ==
  (\A r \in Reqs : img[r].rev = "cached" /\ img[r].pc # "idle") =>
    LET i == CacheIndex(cache, RequestKey(img[1])) IN
    /\ Returned # {} =>
         /\ i # 0
         /\ cache[i].count = Cardinality(Returned)
         /\ cache[i].totalQuality = QualitySum(Returned)
    /\ Returned = {} => (i = 0 \/ cache[i].timestamp = 0)

\* the second request has returned and set its quality while the first is in
\* the middle of its search
C34_SetDuringAnotherSearch ==
  /\ \A r \in Reqs : img[r].rev = "cached"
  /\ img[1].pc = "search" /\ img[1].iterations > 0
  /\ img[2].pc = "done"
  /\ Len(cache) = 1 /\ cache[1].count = 1
  /\ cache[1].totalQuality = img[2].result.quality

-----------------------------------------------------------------------------
(* C35: no two concurrently running compressVideo requests ever use the same *)
(* two-pass log file path: the pass-log file of a request is written, read   *)
(* and deleted only by that request, including when two requests start       *)
(* within the same millisecond.                                              *)

InTwoPass(r) == twopass.req[r].pc \in {"pass1", "pass2", "encoding", "remove"}

C35_PassLogOwnedByOneRequest ==
  /\ \A r \in Reqs : \A s \in Reqs :
       (r # s /\ InTwoPass(r) /\ InTwoPass(s)) =>
         twopass.req[r].passLogFile # twopass.req[s].passLogFile
  /\ \A r \in Reqs : twopass.req[r].readLogOf \in {0, r}
  /\ \A r \in Reqs :
       twopass.req[r].pc \in {"pass2", "encoding", "remove"} =>
         [path |-> twopass.req[r].passLogFile, writer |-> r] \in twopass.logs

-----------------------------------------------------------------------------
(* C36: the search loop of compressImage (buffer revision) terminates after  *)
(* at most 7 iterations on the domain [10, 100], whatever the target and the *)
(* encoder's sizes: the interval [minQuality, maxQuality] strictly shrinks   *)
(* in every iteration, the budget of 10 iterations is never what stops the   *)
(* loop, and a call makes at most 8 encoder invocations, the floor fallback  *)
(* included.                                                                 *)

\* the most qualities the interval can hold after 0, 1, ... 7 iterations
WidthAfter == <<91, 45, 22, 11, 5, 2, 1, 0>>

C36_SevenIterationsAtMost ==
  \A r \in Reqs :
    (img[r].rev = "buffer" /\ img[r].pc \in {"search", "done"}
       /\ img[r].result.action # "copied") =>
      /\ img[r].iterations <= 7
      /\ img[r].encodes <= 8
      /\ img[r].maxQuality - img[r].minQuality + 1 <= WidthAfter[img[r].iterations + 1]
      /\ (img[r].pc = "done" /\ ~img[r].stopped) => img[r].minQuality > img[r].maxQuality

\* every candidate 55, 78, 89, 95, 98, 99, 100 fitted, none in the band: the
\* loop ended after its seventh iteration
C36_SeventhIteration ==
  \E r \in Reqs :
    /\ img[r].rev = "buffer" /\ img[r].pc = "done" /\ ~img[r].stopped
    /\ img[r].iterations = 7 /\ img[r].encodes = 7
    /\ img[r].minQuality = 101 /\ img[r].maxQuality = 100
    /\ img[r].result.quality = 100

-----------------------------------------------------------------------------
(* C37: an expired cache entry is never revived: when set is called for a    *)
(* bucket whose entry was last written at least maxAge ago, and no get has   *)
(* evicted it, the entry is replaced by a fresh single-observation entry, so *)
(* a later get does not return an average that includes the expired          *)
(* observations.                                                             *)

\* the step is a set that finds the entry of its bucket expired
SetOnExpiredEntry ==
  /\ call'.calls = call.calls + 1
  /\ call'.op = "set"
  /\ CacheIndex(cache, call'.key) # 0
  /\ now - cache[CacheIndex(cache, call'.key)].timestamp >= maxAge

C37_ExpiredEntryReplaced ==
  [][SetOnExpiredEntry =>
       LET entry == cache'[CacheIndex(cache', call'.key)] IN
       /\ entry.count = 1
       /\ entry.totalQuality = call'.quality
       /\ entry.timestamp = now]_vars

-----------------------------------------------------------------------------
(* C38: the result of detectQualityChanges (debounced revision) is decided   *)
(* by whichever of timeout, stream end and encoder error occurs first and    *)
(* never changes afterwards: after the timeout has fired, a later 'end' or   *)
(* 'error' of the analysis pass, which is still running, does not replace    *)
(* the empty result; and when 'end' or 'error' occurs first the timer is     *)
(* cancelled.                                                                *)

\* a step of one invocation of the debounced detector
DetectorStep == det.rev = "debounced" /\ det.pc = "running" /\ det'.pc = "running"

FirstDecides ==
  /\ det.promise.state # "pending" => det'.promise = det.promise
  /\ (det.timer = "armed" /\ det'.timer = "fired") =>
       det'.promise = [state |-> "resolved", value |-> <<>>]
  /\ (det.proc = "running" /\ det'.proc = "ended" /\ det.timer = "armed") =>
       /\ det'.timer = "cleared"
       /\ det'.promise = [state |-> "resolved",
                          value |-> UniqueChanges(det.qualityChanges, "debounced")]
  /\ (det.proc = "running" /\ det'.proc = "errored" /\ det.timer = "armed") =>
       /\ det'.timer = "cleared"
       /\ det'.promise = [state |-> "resolved", value |-> <<>>]
  /\ det.timer \in {"cleared", "fired"} => det'.timer = det.timer

C38_FirstOutcomeDecides == [][DetectorStep => FirstDecides]_vars

\* the timeout fired, then the analysis pass reported a change and ended: the
\* result is still the empty list
C38_EndAfterTimeoutKeepsEmpty ==
  /\ det.rev = "debounced" /\ det.pc = "running"
  /\ det.timer = "fired" /\ det.proc = "ended"
  /\ UniqueChanges(det.qualityChanges, "debounced") # <<>>
  /\ det.promise = [state |-> "resolved", value |-> <<>>]

-----------------------------------------------------------------------------
(* C39: when splitVideo returns or throws, no encode job it started is still *)
(* active: in particular, when one job of a batch fails the failure is not   *)
(* surfaced to the caller while the other job of the batch is still running. *)

C39_NoJobOutlivesTheCall ==
  (vid.op = "splitVideo" /\ vid.pc \in {"done", "failed"}) =>
    \A k \in 1..Len(vid.jobs) : vid.jobs[k].state \notin {"encoding", "stat"}

-----------------------------------------------------------------------------
(* C40: when at least one quality change survives detection,                 *)
(* detectWebMQualityChange produces exactly k + 1 segments for k surviving   *)
(* events, whatever the target size: the plan does not depend on             *)
(* targetSizeKB and no segment is subdivided because it would exceed the     *)
(* target.                                                                   *)

\* the request has planned its segments from detected changes
PlannedFromEvents ==
  /\ webm.pc \in {"encode", "await", "done", "failed"}
  /\ webm.segments # <<>>
  /\ Len(webm.qualityChanges) > 0

====
